---- MODULE Spec2Model ----
(***************************************************************************)
(* Model of the batch orchestration and response-reconciliation pipeline   *)
(* of pgs-matcher: chunkArray (lib/excel-utils.ts), the server action      *)
(* matchEmissionFactorsAction (actions/openai-actions.ts), the parallel    *)
(* action matchEmissionFactorsParallelAction (implementation-plan.md) and  *)
(* the two processData handlers (sequential: emission-matcher page,        *)
(* parallel: app/page.tsx).                                                *)
(***************************************************************************)
EXTENDS Integers, Sequences, FiniteSets, TLC

(***************************************************************************)
(* Bounds of the model.                                                    *)
(***************************************************************************)
MaxRows == 3
MaxBatchSize == 2
MaxChunkLen == 4
MaxChunkSize == 3
MaxMatches == 2
MaxExpected == 3

(***************************************************************************)
(* JSON values as JSON.parse returns them.  Scalars keep their text in v;  *)
(* an array keeps its elements in items; an object keeps its own           *)
(* properties, in Object.keys order, as a sequence of <<key, value>>.      *)
(* Undefined is what a property read yields when the property is absent.   *)
(***************************************************************************)
Undefined == [t |-> "undefined"]
JNull == [t |-> "null"]
JStr(s) == [t |-> "str", v |-> s]
JNum(s) == [t |-> "num", v |-> s]
JBool(s) == [t |-> "bool", v |-> s]
JArr(xs) == [t |-> "arr", items |-> xs]
JObj(fs) == [t |-> "obj", fields |-> fs]

\* JavaScript truthiness (the operand of ||, && and !).
Truthy(x) ==
  CASE x.t = "undefined" -> FALSE
    [] x.t = "null" -> FALSE
    [] x.t = "bool" -> x.v = "true"
    [] x.t = "num" -> x.v # "0"
    [] x.t = "str" -> x.v # ""
    [] OTHER -> TRUE

\* a || b
Or(a, b) == IF Truthy(a) THEN a ELSE b

\* Array.isArray(x)
IsArray(x) == x.t = "arr"

\* typeof x === 'object' (null, arrays and objects)
TypeofObject(x) == x.t \in {"null", "arr", "obj"}

\* x[key] for a value x that is neither null nor undefined: an own property
\* of an object, Undefined otherwise (the keys probed are never properties
\* of arrays, strings, numbers or booleans).
Prop(x, key) ==
  IF x.t = "obj" /\ \E j \in 1..Len(x.fields) : x.fields[j][1] = key
  THEN x.fields[CHOOSE j \in 1..Len(x.fields) : x.fields[j][1] = key][2]
  ELSE Undefined

\* Object.keys(x): the own keys of an object; the indices of an array.
ObjectKeys(x) ==
  IF x.t = "obj" THEN [j \in 1..Len(x.fields) |-> x.fields[j][1]]
  ELSE IF x.t = "arr" THEN [j \in 1..Len(x.items) |-> ToString(j - 1)]
  ELSE <<>>

\* x[key] where key comes from Object.keys(x)
Index(x, key) ==
  IF x.t = "arr"
  THEN x.items[CHOOSE j \in 1..Len(x.items) : ToString(j - 1) = key]
  ELSE Prop(x, key)

(***************************************************************************)
(* chunkArray(array, chunkSize): the loop pushes array.slice(i, i+size)    *)
(* for i = 0, size, 2*size, ... while i < array.length.                    *)
(***************************************************************************)
\* array.slice(from, to) with 0-based from, exclusive to (clamped)
Slice(array, from, to) ==
  LET hi == IF to > Len(array) THEN Len(array) ELSE to
  IN  IF from >= hi THEN <<>> ELSE [j \in 1..(hi - from) |-> array[from + j]]

RECURSIVE chunkLoop(_, _, _, _)
chunkLoop(array, chunkSize, i, result) ==
  IF i < Len(array)
  THEN chunkLoop(array, chunkSize, i + chunkSize,
                 Append(result, Slice(array, i, i + chunkSize)))
  ELSE result

\* A chunker whose slices overlap by one element (slice(i, i + size + 1)).
RECURSIVE chunkLoopOverlap(_, _, _, _)
chunkLoopOverlap(array, chunkSize, i, result) ==
  IF i < Len(array)
  THEN chunkLoopOverlap(array, chunkSize, i + chunkSize,
                        Append(result, Slice(array, i, i + chunkSize + 1)))
  ELSE result

chunkArrayOverlap(array, chunkSize) == chunkLoopOverlap(array, chunkSize, 0, <<>>)

\* A chunker that slices once before testing the bound (a do-while loop), so
\* that an empty array yields one empty chunk.
chunkArraySliceFirst(array, chunkSize) ==
  IF Len(array) = 0 THEN << <<>> >> ELSE chunkLoop(array, chunkSize, 0, <<>>)

chunkArray(array, chunkSize) == chunkLoop(array, chunkSize, 0, <<>>)

(***************************************************************************)
(* The inline chunking loop of matchEmissionFactorsParallelAction.         *)
(***************************************************************************)
RECURSIVE parallelBatchLoop(_, _, _, _)
parallelBatchLoop(rws, size, i, bs) ==
  IF i < Len(rws)
  THEN parallelBatchLoop(rws, size, i + size, Append(bs, Slice(rws, i, i + size)))
  ELSE bs

parallelBatches(rws, size) == parallelBatchLoop(rws, size, 0, <<>>)

\* [...a, ...b, ...] over a sequence of sequences
RECURSIVE Flatten(_)
Flatten(ss) == IF ss = <<>> THEN <<>> ELSE Head(ss) \o Flatten(Tail(ss))

(***************************************************************************)
(* Result envelopes (ActionState) and thrown exceptions.                   *)
(* A failure envelope has no data property; data is kept as <<>> there     *)
(* and hasData tells whether the property is present.                      *)
(***************************************************************************)
Success(msg, d) == [isSuccess |-> TRUE, message |-> msg, hasData |-> TRUE, data |-> d]
Failure(msg) == [isSuccess |-> FALSE, message |-> msg, hasData |-> FALSE, data |-> <<>>]
\* throw e: isError is (e instanceof Error), message is e.message
Thrown(isErr, msg) == [thrown |-> TRUE, isError |-> isErr, message |-> msg]
IsThrown(r) == "thrown" \in DOMAIN r

MsgRefusal ==
  "The model refused to process this request. This might be due to content policy restrictions."
MsgLength ==
  "The response was truncated due to length constraints. Try processing fewer rows at once."
\* the content-filter outcome reported with the generic parse failure message
MsgContentFilterCollapsed == "Failed to parse the API response"
MsgContentFilter ==
  "The response was filtered due to content policy. Try adjusting your input data."
MsgInvalidFormat == "Failed to parse response: invalid format"
MsgNoMatches == "Failed to find matches in the response"
MsgEmptyMatches == "No matches returned in the response"
MsgParseError == "Failed to parse the API response"
MsgDefault == "Failed to match emission factors"
MsgSuccess == "Successfully matched emission factors"

MissingPlaceholder ==
  JObj(<< <<"EmissionFactorCode", JStr("MISSING")>>,
          <<"EmissionFactorName", JStr("Match not provided")>> >>)

(***************************************************************************)
(* matchEmissionFactorsAction, after the remote call has settled.          *)
(* A reply of the remote call is either                                    *)
(*   [kind |-> "throw", isError, message]      the call rejected, or       *)
(*   [kind |-> "response", refusal, finish_reason, content]                *)
(* where refusal is the truthiness of choices[0].message.refusal and       *)
(* content is the message content: [c |-> "empty"] (null or ""),           *)
(* [c |-> "malformed"] (text JSON.parse rejects) or                        *)
(* [c |-> "json", value |-> v] (text JSON.parse turns into v).             *)
(***************************************************************************)

\* Locating the array of matches in the parsed response.
NotFound == [found |-> FALSE, matches |-> <<>>]
Found(arr) == [found |-> TRUE, matches |-> arr.items]

\* Object.keys(parsedResponse).find(key => Array.isArray(parsedResponse[key])
\*   && parsedResponse[key].length > 0)
FindArrayKey(parsedResponse) ==
  LET keys == ObjectKeys(parsedResponse)
      hit(j) == /\ IsArray(Index(parsedResponse, keys[j]))
                /\ Len(Index(parsedResponse, keys[j]).items) > 0
  IN  IF \E j \in 1..Len(keys) : hit(j)
      THEN JStr(keys[CHOOSE j \in 1..Len(keys) :
                       hit(j) /\ \A h \in 1..(j - 1) : ~hit(h)])
      ELSE Undefined

LocateMatches(parsedResponse) ==
  LET m == Prop(parsedResponse, "matches")
      r == Prop(parsedResponse, "results")
      arrayKey == FindArrayKey(parsedResponse)
  IN  IF Truthy(m) /\ IsArray(m) THEN Found(m)
      ELSE IF Truthy(r) /\ IsArray(r) THEN Found(r)
      ELSE IF IsArray(parsedResponse) THEN Found(parsedResponse)
      ELSE IF Truthy(arrayKey) THEN Found(Index(parsedResponse, arrayKey.v))
      ELSE NotFound

\* A reconciliation that pads but forgets to truncate.
ReconcileLengthPadOnly(matches, n) ==
  IF Len(matches) < n
  THEN matches \o [j \in 1..(n - Len(matches)) |-> MissingPlaceholder]
  ELSE matches

\* Padding with placeholders or truncating to rows.length.
ReconcileLength(matches, n) ==
  IF Len(matches) < n
  THEN matches \o [j \in 1..(n - Len(matches)) |-> MissingPlaceholder]
  ELSE IF Len(matches) > n THEN Slice(matches, 0, n)
  ELSE matches

\* The callback of matches.map: reading a property of null throws TypeError.
CanReadProps(match) == match.t \notin {"null", "undefined"}

StandardizeMatch(match) ==
  [EmissionFactorCode |->
     Or(Prop(match, "EmissionFactorCode"),
        Or(Prop(match, "code"), Or(Prop(match, "factorCode"), JStr("UNKNOWN")))),
   EmissionFactorName |->
     Or(Prop(match, "EmissionFactorName"),
        Or(Prop(match, "name"),
           Or(Prop(match, "factorName"), JStr("Unknown emission factor"))))]

IsEmptyMatchesNever(matches) == FALSE

\* matches.length === 0
IsEmptyMatches(matches) == Len(matches) = 0

\* The body of the inner try block: an envelope, or a thrown exception.
ParseAndNormalize(content, n) ==
  IF content.c # "json" THEN Thrown(TRUE, "Unexpected end of JSON input")
  ELSE
    LET parsedResponse == content.value
        located == LocateMatches(parsedResponse)
        matches == ReconcileLength(located.matches, n)
    IN  IF ~Truthy(parsedResponse) \/ ~TypeofObject(parsedResponse)
        THEN Failure(MsgInvalidFormat)
        ELSE IF ~located.found THEN Failure(MsgNoMatches)
        ELSE IF IsEmptyMatches(located.matches) THEN Failure(MsgEmptyMatches)
        ELSE IF \E j \in 1..Len(matches) : ~CanReadProps(matches[j])
        THEN Thrown(TRUE, "Cannot read properties of null")
        ELSE Success(MsgSuccess,
                     [j \in 1..Len(matches) |-> StandardizeMatch(matches[j])])

\* An inner catch that answers with no labels instead of failing.
InnerCatchEmptyLabels(r) == IF IsThrown(r) THEN Success(MsgSuccess, <<>>) ELSE r

\* The inner catch: whatever the inner try threw becomes a parse failure.
InnerCatch(r) == IF IsThrown(r) THEN Failure(MsgParseError) ELSE r

\* The body of the outer try block, from the settled remote call on.
ActionBody(reply, rws) ==
  IF reply.kind = "throw" THEN Thrown(reply.isError, reply.message)
  ELSE IF reply.refusal THEN Failure(MsgRefusal)
  ELSE IF reply.finish_reason = "length" THEN Failure(MsgLength)
  ELSE IF reply.finish_reason = "content_filter" THEN Failure(MsgContentFilter)
  ELSE InnerCatch(ParseAndNormalize(reply.content, Len(rws)))

\* An outer catch that rethrows instead of building an envelope.
OuterCatchRethrows(r) == r

\* The outer catch: error instanceof Error ? error.message : default.
OuterCatch(r) ==
  IF IsThrown(r)
  THEN Failure(IF r.isError THEN r.message ELSE MsgDefault)
  ELSE r

matchEmissionFactorsAction(reply, rws) == OuterCatch(ActionBody(reply, rws))

(***************************************************************************)
(* matchEmissionFactorsParallelAction, after every batch call has settled. *)
(***************************************************************************)
RECURSIVE Join(_, _)
Join(strs, sep) ==
  IF strs = <<>> THEN ""
  ELSE IF Len(strs) = 1 THEN strs[1]
  ELSE strs[1] \o sep \o Join(Tail(strs), sep)

\* Promise.all resolving in the order in which the calls completed.
PromiseAllByCompletion(results, order) ==
  [j \in 1..Len(order) |-> results[order[j]]]

\* await Promise.all(batchPromises): the values in the order of the promises,
\* whatever the order in which they settled.
PromiseAll(results, order) ==
  [j \in 1..Len(order) |-> results[j]]

IsFailed(result) == ~result.isSuccess

\* A check that looks at the first batch only.
AnyBatchFailedFirstOnly(batchResults) ==
  Len(batchResults) > 0 /\ IsFailed(batchResults[1])

\* failedBatches.length > 0
AnyBatchFailed(batchResults) ==
  Len(SelectSeq(batchResults, IsFailed)) > 0

CombineBatchResults(batchResults) ==
  LET failedBatches == SelectSeq(batchResults, IsFailed)
      errorMessages ==
        Join([j \in 1..Len(failedBatches) |-> failedBatches[j].message], "; ")
      allMatches ==
        Flatten([j \in 1..Len(batchResults) |->
                   IF batchResults[j].hasData THEN batchResults[j].data ELSE <<>>])
  IN  IF \E j \in 1..Len(batchResults) : IsThrown(batchResults[j])
      THEN LET e == batchResults[CHOOSE j \in 1..Len(batchResults) :
                                   IsThrown(batchResults[j])]
           IN  Failure(IF e.isError THEN e.message
                       ELSE "Failed to process batches in parallel")
      ELSE IF AnyBatchFailed(batchResults)
      THEN Failure("Failed to process " \o ToString(Len(failedBatches))
                   \o " batch(es): " \o errorMessages)
      ELSE Success("Successfully processed " \o ToString(Len(batchResults))
                   \o " batches with " \o ToString(Len(allMatches)) \o " matches",
                   allMatches)

(***************************************************************************)
(* Reconciliation in processData: merging rows with labels.                *)
(***************************************************************************)
ResultRow(row, code, name) ==
  [row |-> row, EmissionFactorCode |-> code, EmissionFactorName |-> name]

FallbackMatch ==
  [EmissionFactorCode |-> JStr("ERROR"), EmissionFactorName |-> JStr("Failed to match")]

\* A failure path that adds no rows for the failed batch.
PlaceholderResultsNone(rws, message) == <<>>

\* A failure path whose placeholders do not carry the failure message.
PlaceholderResultsNoMessage(rws, message) ==
  [j \in 1..Len(rws) |-> ResultRow(rws[j], JStr("ERROR"), JStr("Failed: "))]

\* rows.map(row => ({...row, EmissionFactorCode: "ERROR",
\*                   EmissionFactorName: `Failed: ${result.message}`}))
PlaceholderResults(rws, message) ==
  [j \in 1..Len(rws) |->
     ResultRow(rws[j], JStr("ERROR"), JStr("Failed: " \o message))]

\* A merge that gives every row the first label of the data.
MergeResultsFirstLabel(rws, data) ==
  [j \in 1..Len(rws) |->
     LET match == IF 1 <= Len(data) THEN data[1] ELSE FallbackMatch
     IN  ResultRow(rws[j], match.EmissionFactorCode, match.EmissionFactorName)]

\* rows.map((row, index) => { const match = data[index] || fallback; ... })
MergeResults(rws, data) ==
  [j \in 1..Len(rws) |->
     LET match == IF j <= Len(data) THEN data[j] ELSE FallbackMatch
     IN  ResultRow(rws[j], match.EmissionFactorCode, match.EmissionFactorName)]

\* if (!result.isSuccess || !result.data)
ResultFailed(result) == ~result.isSuccess \/ ~result.hasData

\* A loop that submits a failed batch again.
NextIndexRetry(i, failed) == IF failed THEN i ELSE i + 1

\* i++ of the for loop, reached at the end of the body and by `continue`
NextIndex(i, failed) == i + 1

\* A loop that stops at the first failed batch.
LoopContinuesUnlessFailed(i, n, failed) == i + 1 < n /\ ~failed

\* for (i = 0; i < batches.length; i++) with `continue` on a failed batch:
\* whether another iteration follows iteration i.
LoopContinues(i, n, failed) == i + 1 < n

(***************************************************************************)
(* The remote classifier as the pipeline sees it.  For a batch it answers  *)
(* with one of a few replies; a label it returns for row r is CodeOf(r) /  *)
(* NameOf(r), so that a label attached to the wrong row is visible.        *)
(***************************************************************************)
CodeOf(r) == "EF" \o ToString(r)
NameOf(r) == "Factor " \o ToString(r)

CanonicalMatch(r) ==
  JObj(<< <<"EmissionFactorCode", JStr(CodeOf(r))>>,
          <<"EmissionFactorName", JStr(NameOf(r))>> >>)
AliasMatch(r) ==
  JObj(<< <<"code", JStr(CodeOf(r))>>, <<"name", JStr(NameOf(r))>> >>)

Response(refusal, finish, content) ==
  [kind |-> "response", refusal |-> refusal, finish_reason |-> finish,
   content |-> content]
Json(v) == [c |-> "json", value |-> v]

\* every row of the batch labelled, under the key "matches"
ReplyOk(rws) ==
  Response(FALSE, "stop",
           Json(JObj(<< <<"matches", JArr([j \in 1..Len(rws) |-> CanonicalMatch(rws[j])])>> >>)))
\* the last row of the batch left out, alias keys, under the key "results"
ReplyShort(rws) ==
  Response(FALSE, "stop",
           Json(JObj(<< <<"results",
                          JArr([j \in 1..(Len(rws) - 1) |-> AliasMatch(rws[j])])>> >>)))
ReplyRefusal == Response(TRUE, "stop", [c |-> "empty"])
ReplyLength == Response(FALSE, "length", [c |-> "malformed"])
ReplyContentFilter == Response(FALSE, "content_filter", [c |-> "empty"])
ReplyMalformed == Response(FALSE, "stop", [c |-> "malformed"])
ReplyNoArray == Response(FALSE, "stop", Json(JObj(<< <<"matches", JStr("none")>> >>)))
ReplyThrow == [kind |-> "throw", isError |-> TRUE, message |-> "Connection error."]

PipelineReplies(rws) ==
  {ReplyOk(rws), ReplyShort(rws), ReplyRefusal, ReplyLength, ReplyContentFilter,
   ReplyMalformed, ReplyNoArray, ReplyThrow}

(***************************************************************************)
(* State.                                                                  *)
(***************************************************************************)
VARIABLES
  mode,            \* "sequential" (emission-matcher page) or "parallel" (app/page.tsx)
  rows,            \* fileData.rows
  batchSize,       \* the batch size handed to the chunker (DEFAULT_BATCH_SIZE)
  pc,              \* where processData stands
  batches,         \* the batches of the run
  i,               \* loop index of the sequential loop (0-based)
  inflight,        \* batch numbers (1-based) whose remote call is outstanding
  requests,        \* history: batch numbers in the order their requests were issued
  replies,         \* history: batch number -> reply of the remote call
  outcomes,        \* batch number -> envelope of matchEmissionFactorsAction
  order,           \* history: batch numbers in the order their calls completed
  actionResult,    \* envelope returned by matchEmissionFactorsParallelAction
  allResults,      \* let allResults
  hasErrors,       \* let hasErrors
  isProcessing, isComplete, matchedResults, error, processingStats,
  runExamples,     \* the userExamples this invocation of processData closed over
  rerun,           \* history: nothing yet (n = 1), or a completed run on record (n = 2)
  remote,          \* the replies the remote draws from: "any" reply or the "plain" ones
  file,            \* the name of the selected file, 0 for null
  fileData,        \* the parsed file on the page, or NoFile (null)
  headerDescriptions, \* "none" ({}), "blank" (some header undescribed) or "filled"
  exampleRows,     \* the rows sampled for the examples step
  userExamples,    \* the examples submitted; null and [] are both <<>>
  selectedFactors, \* modal: example row index -> whether a factor is chosen
  currentExampleIndex, \* modal: position of the example shown (0-based)
  examplesSubmitted, isExampleModalOpen,
  parsing,         \* the files whose parseFile call is outstanding
  fnIn, fnOut, fnPc   \* a function applied on its own: its input, output and position

pipelineVars ==
  <<mode, rows, runExamples, batchSize, pc, batches, i, inflight, requests, replies,
    outcomes,
    order, actionResult, allResults, hasErrors, isProcessing, isComplete,
    matchedResults, error, processingStats, rerun, remote, file,
    fileData,
    headerDescriptions, exampleRows, userExamples, examplesSubmitted,
    isExampleModalOpen, parsing, selectedFactors, currentExampleIndex>>
formVars ==
  <<file, fileData, headerDescriptions, exampleRows, userExamples, isExampleModalOpen,
    parsing, selectedFactors, currentExampleIndex>>
modalVars == <<selectedFactors, currentExampleIndex>>
fnVars == <<fnIn, fnOut, fnPc>>
vars == <<pipelineVars, fnVars>>

NoError == "null"
NoResult == [none |-> TRUE]
Stats(cur, total, done, all) ==
  [currentBatch |-> cur, totalBatches |-> total, processedRows |-> done, totalRows |-> all]
Min(a, b) == IF a < b THEN a ELSE b
\* f with x mapped to v
Put(f, x, v) == [y \in (DOMAIN f) \cup {x} |-> IF y = x THEN v ELSE f[y]]
Empty == [y \in {} |-> 0]

\* rerun while no run is on record.  A run on record keeps the rows it
\* processed, the reply each of its batches got, the examples it was given
\* (the userExamples of the render processData was created in), the results
\* it published and whether its calls completed in index order.
FirstRun ==
  [n |-> 1, rows |-> <<>>, mocked |-> Empty, examples |-> <<>>, first |-> <<>>,
   firstInOrder |-> TRUE]

\* The replies the remote call of batch b may settle with.
\* The replies of a remote that answers in full, refuses, or cannot be reached.
PlainReplies(rws) == {ReplyOk(rws), ReplyRefusal, ReplyThrow}

RemoteReplies(b) ==
  IF remote = "plain" THEN PlainReplies(batches[b])
  ELSE PipelineReplies(batches[b])

RowSeqs == { [j \in 1..n |-> j] : n \in 1..MaxRows }

NoFile == [name |-> 0, rows |-> <<>>]

SampleSize == 5

\* { rowIndex, rowData } of the row at 1-based position j
ExampleRow(rws, j) == [rowIndex |-> j - 1, rowData |-> rws[j]]

\* The samples generateExampleRows may draw: the rows at min(5, totalRows)
\* distinct random indices, in the order the indices were drawn.
sampleRows(rws) ==
  LET n == Len(rws)
      k == Min(SampleSize, n)
      picks == { q \in [1..k -> 1..n] : \A a, b \in 1..k : a # b => q[a] # q[b] }
  IN  { [p \in 1..k |-> ExampleRow(rws, pick[p])] : pick \in picks }

\* The modal's useState initializer: no factor chosen for any example row.
InitialFactors(ers) == [k \in {ers[p].rowIndex : p \in 1..Len(ers)} |-> FALSE]

\* exampleRows.map(row => ({ rowData, EmissionFactorCode: ...code || "", ... }))
ExamplesOf(ers, factors) ==
  [p \in 1..Len(ers) |->
     [rowData |-> ers[p].rowData,
      EmissionFactorCode |-> IF /\ ers[p].rowIndex \in DOMAIN factors
                                /\ factors[ers[p].rowIndex]
                             THEN "code" ELSE ""]]

\* The "Process Data" buttons of the two pages: which of the two is rendered,
\* and whether it is enabled.
ProcessDataButton ==
  /\ fileData # NoFile
  /\ ~isProcessing
  /\ IF mode = "parallel"
     THEN examplesSubmitted
     ELSE ~examplesSubmitted \/ ~isComplete

\* The early returns of processData that leave the state alone.
HasDataAndDescriptions ==
  /\ fileData # NoFile /\ Len(fileData.rows) > 0
  /\ headerDescriptions # "blank"

\* The last early return: the examples step (parallel page: completed;
\* sequential page: at least one example).
ExamplesProvided ==
  IF mode = "parallel" THEN examplesSubmitted ELSE Len(userExamples) > 0

\* The page after a file was parsed, every header described and the examples
\* submitted: processData passes its guards.
PageInit ==
  /\ mode \in {"sequential", "parallel"}
  /\ rows \in RowSeqs
  /\ batchSize \in 1..MaxBatchSize
  /\ pc = "idle"
  /\ batches = <<>>
  /\ i = 0
  /\ inflight = {}
  /\ requests = <<>>
  /\ replies = Empty
  /\ outcomes = Empty
  /\ order = <<>>
  /\ actionResult = NoResult
  /\ allResults = <<>>
  /\ hasErrors = FALSE
  /\ isProcessing = FALSE
  /\ isComplete = FALSE
  /\ matchedResults = <<>>
  /\ error = NoError
  /\ processingStats = Stats(0, 0, 0, 0)
  /\ rerun = FirstRun
  /\ remote = "any"
  /\ file = 1
  /\ fileData = [name |-> 1, rows |-> rows]
  /\ headerDescriptions = "filled"
  /\ exampleRows = [p \in 1..Min(SampleSize, Len(rows)) |-> ExampleRow(rows, p)]
  /\ selectedFactors = [k \in DOMAIN InitialFactors(exampleRows) |-> TRUE]
  /\ currentExampleIndex = 0
  /\ userExamples = ExamplesOf(exampleRows, selectedFactors)
  /\ runExamples = userExamples
  /\ examplesSubmitted = TRUE
  /\ isExampleModalOpen = FALSE
  /\ parsing = {}

FnIdle == fnIn = <<>> /\ fnOut = <<>> /\ fnPc = "none"

Init == PageInit /\ FnIdle

(***************************************************************************)
(* processData, sequential page: one batch call at a time.                 *)
(***************************************************************************)
MsgSomeErrors ==
  "Some batches encountered errors. The results include placeholders for failed matches."

\* processData from its entry to the first await: the state resets, the
\* chunking, and the first iteration of the loop up to the batch call.
SeqStart ==
  /\ pc = "idle" /\ mode = "sequential"
  /\ ProcessDataButton /\ HasDataAndDescriptions /\ ExamplesProvided
  /\ rows' = fileData.rows
  /\ runExamples' = userExamples
  /\ LET bs == chunkArray(fileData.rows, batchSize)
     IN  /\ batches' = bs
         /\ processingStats' = Stats(1, Len(bs), Min(batchSize, Len(fileData.rows)),
                                     Len(fileData.rows))
  /\ isProcessing' = TRUE
  /\ isComplete' = FALSE
  /\ matchedResults' = <<>>
  /\ error' = NoError
  /\ allResults' = <<>>
  /\ hasErrors' = FALSE
  /\ i' = 0
  /\ inflight' = {1}
  /\ requests' = <<1>>
  /\ pc' = "awaiting"
  /\ UNCHANGED <<mode, batchSize, replies, outcomes, order, actionResult,
                 examplesSubmitted>>

\* The continuation after `await matchEmissionFactorsAction(...)`: the batch
\* is reconciled; then either the next iteration runs up to its batch call,
\* or the loop ends and the results are published.
SeqSettle ==
  /\ pc = "awaiting" /\ mode = "sequential"
  /\ \E reply \in RemoteReplies(i + 1) :
       LET batchRows == batches[i + 1]
           result == matchEmissionFactorsAction(reply, batchRows)
       IN  /\ replies' = Put(replies, i + 1, reply)
           /\ outcomes' = Put(outcomes, i + 1, result)
           /\ order' = Append(order, i + 1)
           /\ IF IsThrown(result)
              THEN \* catch / finally of processData
                   /\ error' = (IF result.isError THEN result.message
                                ELSE "Failed to process data")
                   /\ isProcessing' = FALSE
                   /\ inflight' = {}
                   /\ pc' = "done"
                   /\ UNCHANGED <<i, requests, allResults, hasErrors, isComplete,
                                  matchedResults, processingStats, examplesSubmitted>>
              ELSE
                LET failed == ResultFailed(result)
                    newResults ==
                      allResults \o
                        (IF failed THEN PlaceholderResults(batchRows, result.message)
                         ELSE MergeResults(batchRows, result.data))
                    newErrors == hasErrors \/ failed
                    next == NextIndex(i, failed)
                IN  /\ allResults' = newResults
                    /\ hasErrors' = newErrors
                    /\ i' = next
                    /\ IF LoopContinues(i, Len(batches), failed)
                       THEN /\ processingStats' =
                                 Stats(next + 1, Len(batches),
                                       Min((next + 1) * batchSize, Len(rows)), Len(rows))
                            /\ inflight' = {next + 1}
                            /\ requests' = Append(requests, next + 1)
                            /\ pc' = "awaiting"
                            /\ UNCHANGED <<isProcessing, isComplete, matchedResults,
                                           error, examplesSubmitted>>
                       ELSE /\ matchedResults' = newResults
                            /\ isComplete' = TRUE
                            /\ examplesSubmitted' = FALSE
                            /\ error' = (IF newErrors THEN MsgSomeErrors ELSE error)
                            /\ isProcessing' = FALSE
                            /\ inflight' = {}
                            /\ pc' = "done"
                            /\ UNCHANGED <<requests, processingStats>>
  /\ UNCHANGED <<mode, rows, runExamples, batchSize, batches, actionResult>>

(***************************************************************************)
(* processData, parallel page, and matchEmissionFactorsParallelAction.     *)
(***************************************************************************)
Ceil(a, b) == (a + b - 1) \div b

\* processData from its entry to `await matchEmissionFactorsParallelAction`.
ParStart ==
  /\ pc = "idle" /\ mode = "parallel"
  /\ ProcessDataButton /\ HasDataAndDescriptions /\ ExamplesProvided
  /\ rows' = fileData.rows
  /\ runExamples' = userExamples
  /\ isProcessing' = TRUE
  /\ isComplete' = FALSE
  /\ matchedResults' = <<>>
  /\ error' = NoError
  /\ processingStats' = Stats(0, Ceil(Len(fileData.rows), batchSize), 0,
                              Len(fileData.rows))
  /\ pc' = "calling"
  /\ UNCHANGED <<mode, batchSize, batches, i, inflight, requests, replies,
                 outcomes, order, actionResult, allResults, hasErrors,
                 examplesSubmitted>>

\* A dispatch that issues the call of the first batch only.
batchPromisesFirstOnly(bs) == IF Len(bs) > 0 THEN <<1>> ELSE <<>>

\* batches.map(...): the batch calls issued, in index order, none awaited
batchPromises(bs) == [j \in 1..Len(bs) |-> j]

\* The parallel action from its entry to `await Promise.all`: the rows are
\* chunked and batches.map issues every batch call, in index order.
ParDispatch ==
  /\ pc = "calling"
  /\ LET bs == parallelBatches(rows, batchSize)
         issued == batchPromises(bs)
     IN  /\ batches' = bs
         /\ requests' = issued
         /\ inflight' = {issued[j] : j \in 1..Len(issued)}
  /\ pc' = "pending"
  /\ UNCHANGED <<mode, rows, runExamples, batchSize, i, replies, outcomes, order, actionResult,
                 allResults, hasErrors, isProcessing, isComplete, matchedResults,
                 error, processingStats, examplesSubmitted>>

\* One of the outstanding batch calls settles.
ParSettle(b) ==
  /\ pc = "pending"
  /\ b \in inflight
  /\ \E reply \in RemoteReplies(b) :
       /\ replies' = Put(replies, b, reply)
       /\ outcomes' = Put(outcomes, b, matchEmissionFactorsAction(reply, batches[b]))
  /\ order' = Append(order, b)
  /\ inflight' = inflight \ {b}
  /\ UNCHANGED <<mode, rows, runExamples, batchSize, pc, batches, i, requests, actionResult,
                 allResults, hasErrors, isProcessing, isComplete, matchedResults,
                 error, processingStats, examplesSubmitted>>

\* Promise.all has resolved: the parallel action builds its envelope.
ParReturn ==
  /\ pc = "pending"
  /\ inflight = {}
  /\ actionResult' = CombineBatchResults(PromiseAll(outcomes, order))
  /\ pc' = "returned"
  /\ UNCHANGED <<mode, rows, runExamples, batchSize, batches, i, inflight, requests, replies,
                 outcomes, order, allResults, hasErrors, isProcessing, isComplete,
                 matchedResults, error, processingStats, examplesSubmitted>>

\* The continuation of processData after the parallel action returned.
ParReconcile ==
  /\ pc = "returned"
  /\ LET result == actionResult
     IN  IF ResultFailed(result)
         THEN /\ error' = result.message
              /\ matchedResults' = PlaceholderResults(rows, result.message)
         ELSE /\ matchedResults' = MergeResults(rows, result.data)
              /\ UNCHANGED error
  /\ processingStats' = [processingStats EXCEPT
                           !.currentBatch = processingStats.totalBatches,
                           !.processedRows = Len(rows)]
  /\ isComplete' = TRUE
  /\ examplesSubmitted' = FALSE
  /\ isProcessing' = FALSE
  /\ pc' = "done"
  /\ UNCHANGED <<mode, rows, runExamples, batchSize, batches, i, inflight, requests, replies,
                 outcomes, order, actionResult, allResults, hasErrors>>

Next ==
  \/ SeqStart /\ UNCHANGED <<fnVars, rerun, remote, formVars>>
  \/ SeqSettle /\ UNCHANGED <<fnVars, rerun, remote, formVars>>
  \/ ParStart /\ UNCHANGED <<fnVars, rerun, remote, formVars>>
  \/ ParDispatch /\ UNCHANGED <<fnVars, rerun, remote, formVars>>
  \/ (\E b \in 1..MaxRows : ParSettle(b)) /\ UNCHANGED <<fnVars, rerun, remote, formVars>>
  \/ ParReturn /\ UNCHANGED <<fnVars, rerun, remote, formVars>>
  \/ ParReconcile /\ UNCHANGED <<fnVars, rerun, remote, formVars>>

Spec == Init /\ [][Next]_vars

(***************************************************************************)
(* The page around processData: file selection with its asynchronous       *)
(* parse, the header descriptions, the examples step, Start Over, and a    *)
(* server-action call that rejects.                                        *)
(***************************************************************************)
MaxFiles == 2
MaxPending == 1

Files == 1..MaxFiles

\* parseFile(file).rows: file f has f rows, and no row belongs to two files
FileRows(f) == [j \in 1..f |-> f * (MaxFiles + 1) + j]

MsgParseFailed == "Failed to parse file"
MsgUnsupportedFormat ==
  "Unsupported file format. Please upload a CSV or Excel file (.csv, .xlsx, .xls)"
MsgReadFailed == "Failed to read file"

\* What a rejected parseFile throws, always an Error: the unsupported format,
\* the reader's failure, and the parsing libraries' errors wrapped as
\* `CSV parsing error: ${message}` or `Excel parsing error: ${message}` (the
\* libraries' text is open-ended: two messages of each stand for it; the
\* onload body itself throws Error("Failed to read file")).
ParseErrors ==
  LET libraryMessages == {"Too few fields", "Unable to auto-detect delimiter"}
  IN  { [isError |-> TRUE, message |-> m] :
          m \in {MsgUnsupportedFormat, MsgReadFailed}
                 \cup {"CSV parsing error: " \o l : l \in libraryMessages}
                 \cup {"Excel parsing error: " \o l :
                         l \in libraryMessages \cup {MsgReadFailed}} }

\* How `await parseFile(selectedFile)` settles: with rows, with no rows, or
\* rejected with an error.
ParseOutcomes ==
  { [kind |-> "parsed"], [kind |-> "empty"] }
    \cup { [kind |-> "throws", thrown |-> e] : e \in ParseErrors }

\* error instanceof Error ? error.message : fallback
ErrorMessage(e, fallback) == IF e.isError THEN e.message ELSE fallback
MsgRejected == "Failed to fetch"

\* The page as mounted: the useState initial values, no file selected.
InitPage ==
  /\ mode \in {"sequential", "parallel"}
  /\ rows = <<>>
  /\ runExamples = <<>>
  /\ batchSize = 1
  /\ pc = "idle"
  /\ batches = <<>>
  /\ i = 0
  /\ inflight = {}
  /\ requests = <<>>
  /\ replies = Empty
  /\ outcomes = Empty
  /\ order = <<>>
  /\ actionResult = NoResult
  /\ allResults = <<>>
  /\ hasErrors = FALSE
  /\ isProcessing = FALSE
  /\ isComplete = FALSE
  /\ matchedResults = <<>>
  /\ error = NoError
  /\ processingStats = Stats(0, 0, 0, 0)
  /\ rerun = FirstRun
  /\ remote = "plain"
  /\ file = 0
  /\ fileData = NoFile
  /\ headerDescriptions = "none"
  /\ exampleRows = <<>>
  /\ userExamples = <<>>
  /\ selectedFactors = Empty
  /\ currentExampleIndex = 0
  /\ examplesSubmitted = FALSE
  /\ isExampleModalOpen = FALSE
  /\ parsing = {}
  /\ FnIdle

runVars ==
  <<mode, rows, runExamples, batchSize, pc, batches, i, inflight, requests, replies,
    outcomes,
    order, actionResult, allResults, hasErrors, rerun, remote>>

\* Handlers run to completion: none starts between the last state update of
\* processData and its return.
NoHandlerRunning == pc # "done"

\* handleFileSelect up to `await parseFile(selectedFile)`; f = 0 is a change
\* event without a file.  The parallel page also clears the results.
handleFileSelect(f) ==
  /\ NoHandlerRunning
  /\ ~isProcessing
  /\ f \notin parsing
  /\ f # 0 => Cardinality(parsing) < MaxPending
  /\ error' = NoError
  /\ examplesSubmitted' = FALSE
  /\ IF mode = "parallel"
     THEN isComplete' = FALSE /\ matchedResults' = <<>>
     ELSE UNCHANGED <<isComplete, matchedResults>>
  /\ IF f = 0
     THEN UNCHANGED <<file, parsing>>
     ELSE file' = f /\ parsing' = parsing \cup {f}
  /\ UNCHANGED <<runVars, isProcessing, processingStats, fileData,
                 headerDescriptions, userExamples, isExampleModalOpen, exampleRows,
                 modalVars>>

\* The continuation of handleFileSelect after parseFile settled.
parseFileSettles(f, outcome) ==
  /\ NoHandlerRunning
  /\ f \in parsing
  /\ parsing' = parsing \ {f}
  /\ CASE outcome.kind = "parsed" ->
            /\ fileData' = [name |-> f, rows |-> FileRows(f)]
            /\ headerDescriptions' = "blank"
            /\ UNCHANGED error
       [] outcome.kind = "empty" -> UNCHANGED <<fileData, headerDescriptions, error>>
       [] outcome.kind = "throws" ->
            /\ error' = ErrorMessage(outcome.thrown, MsgParseFailed)
            /\ UNCHANGED <<fileData, headerDescriptions>>
  /\ UNCHANGED <<runVars, isProcessing, isComplete, matchedResults, processingStats,
                 file, userExamples, examplesSubmitted, isExampleModalOpen, exampleRows,
                 modalVars>>

\* handleDescriptionChange: afterwards every header has a description
\* ("filled") or some header has none ("blank").
handleDescriptionChange(d) ==
  /\ NoHandlerRunning
  /\ fileData # NoFile
  /\ ~isProcessing
  /\ headerDescriptions' = d
  /\ UNCHANGED <<runVars, isProcessing, isComplete, matchedResults, error,
                 processingStats, file, fileData, userExamples, examplesSubmitted,
                 isExampleModalOpen, parsing, exampleRows,
                 modalVars>>

\* {exampleRows.length > 0 && <ExampleCollectionModal isOpen={isExampleModalOpen} />}
ModalShown == Len(exampleRows) > 0 /\ isExampleModalOpen

\* The modal's derived values.
matchedCount ==
  Cardinality({k \in DOMAIN selectedFactors : selectedFactors[k]})
allMatched == matchedCount = Len(exampleRows)
allFactorsSelected == \A k \in DOMAIN selectedFactors : selectedFactors[k]
HasCurrentExample == currentExampleIndex < Len(exampleRows)
currentExample == exampleRows[currentExampleIndex + 1]

\* generateExampleRows, behind the "Continue to Examples" button.
generateExampleRows ==
  /\ NoHandlerRunning
  /\ ~isProcessing
  /\ HasDataAndDescriptions
  /\ exampleRows' \in sampleRows(fileData.rows)
  /\ isExampleModalOpen' = TRUE
  /\ IF Len(exampleRows) = 0
     THEN \* the modal is rendered for the first time: it mounts
          /\ selectedFactors' = InitialFactors(exampleRows')
          /\ currentExampleIndex' = 0
     ELSE UNCHANGED modalVars
  /\ UNCHANGED <<runVars, isProcessing, isComplete, matchedResults, error,
                 processingStats, file, fileData, headerDescriptions, userExamples,
                 examplesSubmitted, parsing>>

\* handleExampleSubmit of the page, the modal's onSubmit.
handleExampleSubmit(examples) ==
  /\ userExamples' = examples
  /\ isExampleModalOpen' = FALSE
  /\ examplesSubmitted' = TRUE
  /\ UNCHANGED <<runVars, isProcessing, isComplete, matchedResults, error,
                 processingStats, file, fileData, headerDescriptions, parsing, exampleRows,
                 modalVars>>

\* handleModalClose of the parallel page (the sequential page only warns).
handleModalClose ==
  /\ mode = "parallel"
  /\ isExampleModalOpen' = FALSE
  /\ UNCHANGED <<runVars, isProcessing, isComplete, matchedResults, error,
                 processingStats, file, fileData, headerDescriptions, userExamples,
                 examplesSubmitted, parsing, exampleRows,
                 modalVars>>

\* The modal: a factor is chosen for the example shown.
handleFactorSelect ==
  /\ NoHandlerRunning
  /\ ModalShown /\ HasCurrentExample
  /\ selectedFactors' = Put(selectedFactors, currentExample.rowIndex, TRUE)
  /\ UNCHANGED <<runVars, isProcessing, isComplete, matchedResults, error,
                 processingStats, file, fileData, headerDescriptions, exampleRows,
                 userExamples, examplesSubmitted, isExampleModalOpen, parsing,
                 currentExampleIndex>>

\* The modal's "Previous" button.
goToPreviousExample ==
  /\ NoHandlerRunning
  /\ ModalShown /\ HasCurrentExample
  /\ currentExampleIndex # 0
  /\ currentExampleIndex' = IF currentExampleIndex - 1 > 0
                            THEN currentExampleIndex - 1 ELSE 0
  /\ UNCHANGED <<runVars, isProcessing, isComplete, matchedResults, error,
                 processingStats, file, fileData, headerDescriptions, exampleRows,
                 userExamples, examplesSubmitted, isExampleModalOpen, parsing,
                 selectedFactors>>

\* The modal's "Next" button.
goToNextExample ==
  /\ NoHandlerRunning
  /\ ModalShown /\ HasCurrentExample
  /\ currentExampleIndex # Len(exampleRows) - 1
  /\ currentExampleIndex' = Min(Len(exampleRows) - 1, currentExampleIndex + 1)
  /\ UNCHANGED <<runVars, isProcessing, isComplete, matchedResults, error,
                 processingStats, file, fileData, headerDescriptions, exampleRows,
                 userExamples, examplesSubmitted, isExampleModalOpen, parsing,
                 selectedFactors>>

\* The modal's "Use These Examples" button, enabled when allMatched: with
\* every factor chosen it hands one example per example row to onSubmit.
handleSubmit ==
  /\ NoHandlerRunning
  /\ ModalShown /\ allMatched
  /\ allFactorsSelected
  /\ handleExampleSubmit(ExamplesOf(exampleRows, selectedFactors))

\* The modal's handleDialogChange(false): with every factor chosen it calls
\* onClose.
handleDialogChange ==
  /\ NoHandlerRunning
  /\ ModalShown
  /\ allFactorsSelected
  /\ handleModalClose

\* processData stopped by its last early return: it opens the examples modal.
processDataNeedsExamples ==
  /\ NoHandlerRunning
  /\ ProcessDataButton /\ HasDataAndDescriptions /\ ~ExamplesProvided
  /\ isExampleModalOpen' = TRUE
  /\ UNCHANGED <<runVars, isProcessing, isComplete, matchedResults, error,
                 processingStats, file, fileData, headerDescriptions, userExamples,
                 examplesSubmitted, parsing, exampleRows,
                 modalVars>>

\* handleReset ("Start Over"), parallel page only.
handleReset ==
  /\ NoHandlerRunning
  /\ mode = "parallel"
  /\ ~isProcessing
  /\ file # 0 \/ fileData # NoFile
  /\ file' = 0
  /\ fileData' = NoFile
  /\ headerDescriptions' = "none"
  /\ isExampleModalOpen' = FALSE
  /\ exampleRows' = <<>>
  /\ selectedFactors' = Empty
  /\ currentExampleIndex' = 0
  /\ userExamples' = <<>>
  /\ examplesSubmitted' = FALSE
  /\ isProcessing' = FALSE
  /\ processingStats' = Stats(0, 0, 0, 0)
  /\ matchedResults' = <<>>
  /\ isComplete' = FALSE
  /\ error' = NoError
  /\ UNCHANGED <<runVars, parsing>>

\* A catch block without the finally block: isProcessing stays as it is.
catchOnly(message, processing) ==
  [error |-> message, isProcessing |-> processing]

\* catch (error) { setError(error.message) } finally { setIsProcessing(false) }
catchFinally(message, processing) ==
  [error |-> message, isProcessing |-> FALSE]

\* The awaited server-action call of the sequential page rejects.
SeqReject ==
  /\ pc = "awaiting" /\ mode = "sequential"
  /\ LET after == catchFinally(MsgRejected, isProcessing)
     IN  /\ error' = after.error
         /\ isProcessing' = after.isProcessing
  /\ inflight' = {}
  /\ pc' = "done"
  /\ UNCHANGED <<mode, rows, runExamples, batchSize, batches, i, requests, replies, outcomes,
                 order, actionResult, allResults, hasErrors, rerun, remote, isComplete,
                 matchedResults, processingStats, examplesSubmitted, formVars>>

\* The awaited server-action call of the parallel page rejects.
ParReject ==
  /\ pc \in {"calling", "pending", "returned"}
  /\ LET after == catchFinally(MsgRejected, isProcessing)
     IN  /\ error' = after.error
         /\ isProcessing' = after.isProcessing
  /\ inflight' = {}
  /\ pc' = "done"
  /\ UNCHANGED <<mode, rows, runExamples, batchSize, batches, i, requests, replies, outcomes,
                 order, actionResult, allResults, hasErrors, rerun, remote, isComplete,
                 matchedResults, processingStats, examplesSubmitted, formVars>>

\* The invocation of processData is over: its locals and the histories of
\* its calls are dropped; the page state stays.
processDataReturns ==
  /\ pc = "done"
  /\ pc' = "idle"
  /\ rows' = <<>>
  /\ runExamples' = <<>>
  /\ batches' = <<>>
  /\ i' = 0
  /\ inflight' = {}
  /\ requests' = <<>>
  /\ replies' = Empty
  /\ outcomes' = Empty
  /\ order' = <<>>
  /\ actionResult' = NoResult
  /\ allResults' = <<>>
  /\ hasErrors' = FALSE
  /\ UNCHANGED <<mode, batchSize, rerun, remote, isProcessing, isComplete, matchedResults,
                 error, processingStats, examplesSubmitted, formVars>>

NextPage ==
  \/ Next
  \/ (\E f \in Files \cup {0} : handleFileSelect(f)) /\ UNCHANGED fnVars
  \/ (\E f \in Files, outcome \in ParseOutcomes : parseFileSettles(f, outcome))
       /\ UNCHANGED fnVars
  \/ (\E d \in {"blank", "filled"} : handleDescriptionChange(d)) /\ UNCHANGED fnVars
  \/ generateExampleRows /\ UNCHANGED fnVars
  \/ handleFactorSelect /\ UNCHANGED fnVars
  \/ goToPreviousExample /\ UNCHANGED fnVars
  \/ goToNextExample /\ UNCHANGED fnVars
  \/ handleSubmit /\ UNCHANGED fnVars
  \/ handleDialogChange /\ UNCHANGED fnVars
  \/ processDataNeedsExamples /\ UNCHANGED fnVars
  \/ handleReset /\ UNCHANGED fnVars
  \/ SeqReject /\ UNCHANGED fnVars
  \/ ParReject /\ UNCHANGED fnVars
  \/ processDataReturns /\ UNCHANGED fnVars

SpecPage == InitPage /\ [][NextPage]_vars

\* Every remote call settles, and the continuations of processData and of
\* the parallel action run once they can.
PageFairness ==
  /\ WF_vars((SeqSettle /\ UNCHANGED <<fnVars, rerun, remote, formVars>>)
               \/ (SeqReject /\ UNCHANGED fnVars))
  /\ WF_vars(ParDispatch /\ UNCHANGED <<fnVars, rerun, remote, formVars>>)
  /\ WF_vars(((\E b \in 1..MaxRows : ParSettle(b))
                 /\ UNCHANGED <<fnVars, rerun, remote, formVars>>)
               \/ (ParReject /\ UNCHANGED fnVars))
  /\ WF_vars(ParReturn /\ UNCHANGED <<fnVars, rerun, remote, formVars>>)
  /\ WF_vars(ParReconcile /\ UNCHANGED <<fnVars, rerun, remote, formVars>>)

SpecPageFair == SpecPage /\ PageFairness

(***************************************************************************)
(* Running the pipeline again: the page with a file parsed and its headers *)
(* described, where the user goes through the examples step and starts     *)
(* processData any number of times (the parallel page asks for the         *)
(* examples step before every run, and every step draws the example rows   *)
(* anew), and the remote answers every call as it chooses or the call      *)
(* rejects.  No other file is selected.  The history variable rerun puts   *)
(* one completed run on record, to compare later runs with: the rows and   *)
(* the examples processData closed over, the reply of each batch, the      *)
(* results it published.                                                   *)
(***************************************************************************)
\* The page after handleFileSelect parsed a file and every header got its
\* description.
InitRerun ==
  /\ mode \in {"sequential", "parallel"}
  /\ rows = <<>>
  /\ runExamples = <<>>
  /\ batchSize = 1
  /\ pc = "idle"
  /\ batches = <<>>
  /\ i = 0
  /\ inflight = {}
  /\ requests = <<>>
  /\ replies = Empty
  /\ outcomes = Empty
  /\ order = <<>>
  /\ actionResult = NoResult
  /\ allResults = <<>>
  /\ hasErrors = FALSE
  /\ isProcessing = FALSE
  /\ isComplete = FALSE
  /\ matchedResults = <<>>
  /\ error = NoError
  /\ processingStats = Stats(0, 0, 0, 0)
  /\ rerun = FirstRun
  /\ remote = "plain"
  /\ file \in Files
  /\ fileData = [name |-> file, rows |-> FileRows(file)]
  /\ headerDescriptions = "filled"
  /\ exampleRows = <<>>
  /\ userExamples = <<>>
  /\ selectedFactors = Empty
  /\ currentExampleIndex = 0
  /\ examplesSubmitted = FALSE
  /\ isExampleModalOpen = FALSE
  /\ parsing = {}
  /\ FnIdle

RecordRun ==
  /\ pc = "done" /\ isComplete
  /\ rerun.n = 1
  /\ rerun' = [n |-> 2, rows |-> rows, mocked |-> replies,
               examples |-> runExamples, first |-> matchedResults,
               firstInOrder |-> (order = [j \in 1..Len(order) |-> j])]
  /\ UNCHANGED <<mode, rows, runExamples, batchSize, pc, batches, i, inflight, requests, replies,
                 outcomes, order, actionResult, allResults, hasErrors, isProcessing,
                 isComplete, matchedResults, error, processingStats, remote,
                 examplesSubmitted, formVars, fnVars>>

NextRerun ==
  \/ Next
  \/ (\E d \in {"blank", "filled"} : handleDescriptionChange(d)) /\ UNCHANGED fnVars
  \/ generateExampleRows /\ UNCHANGED fnVars
  \/ handleFactorSelect /\ UNCHANGED fnVars
  \/ goToPreviousExample /\ UNCHANGED fnVars
  \/ goToNextExample /\ UNCHANGED fnVars
  \/ handleSubmit /\ UNCHANGED fnVars
  \/ handleDialogChange /\ UNCHANGED fnVars
  \/ processDataNeedsExamples /\ UNCHANGED fnVars
  \/ handleReset /\ UNCHANGED fnVars
  \/ SeqReject /\ UNCHANGED fnVars
  \/ ParReject /\ UNCHANGED fnVars
  \/ processDataReturns /\ UNCHANGED fnVars
  \/ RecordRun

SpecRerun == InitRerun /\ [][NextRerun]_vars

(***************************************************************************)
(* The functions on their own: chunkArray and the inline chunking loop     *)
(* over bounded arrays, matchEmissionFactorsAction over a wider set of     *)
(* replies than the pipeline draws from.                                   *)
(***************************************************************************)
PageFixed == PageInit /\ mode = "sequential" /\ rows = <<1>> /\ batchSize = 1

RECURSIVE SeqsUpTo(_, _)
\* the sequences over S of length at most n
SeqsUpTo(S, n) ==
  IF n = 0 THEN {<<>>}
  ELSE LET shorter == SeqsUpTo(S, n - 1)
       IN  shorter \cup {Append(q, x) : q \in shorter, x \in S}

ChunkInputs ==
  [array : SeqsUpTo({1, 2}, MaxChunkLen), chunkSize : 1..MaxChunkSize]

InitChunk ==
  /\ PageFixed
  /\ fnIn \in ChunkInputs
  /\ fnOut = <<>>
  /\ fnPc = "chunk"

\* chunkArray(array, chunkSize) is called
CallChunkArray ==
  /\ fnPc = "chunk"
  /\ fnOut' = chunkArray(fnIn.array, fnIn.chunkSize)
  /\ fnPc' = "chunked"
  /\ UNCHANGED <<fnIn, pipelineVars>>

\* the inline loop of the parallel action runs on the same rows
CallInlineChunking ==
  /\ fnPc = "chunk"
  /\ fnOut' = parallelBatches(fnIn.array, fnIn.chunkSize)
  /\ fnPc' = "inline"
  /\ UNCHANGED <<fnIn, pipelineVars>>

NextChunk == CallChunkArray \/ CallInlineChunking

SpecChunk == InitChunk /\ [][NextChunk]_vars

\* Elements the model's reply may hold in its array.
MatchElements ==
  { JObj(<< <<"EmissionFactorCode", JStr("111110")>>,
            <<"EmissionFactorName", JStr("Soybean Farming")>> >>),
    JObj(<< <<"code", JStr("111110")>>, <<"name", JStr("Soybean Farming")>> >>),
    JObj(<< <<"factorName", JStr("Landscaping")>>, <<"factorCode", JStr("561720")>> >>),
    JObj(<< <<"EmissionFactorCode", JNum("111110")>>,
            <<"EmissionFactorName", JStr("Soybean Farming")>> >>),
    JObj(<< <<"EmissionFactorCode", JStr("")>>, <<"code", JStr("561720")>>,
            <<"EmissionFactorName", JNull>>, <<"name", JStr("Landscaping")>> >>),
    JObj(<<>>),
    JStr("111110"),
    JNull }

MatchArrays == { JArr(q) : q \in SeqsUpTo(MatchElements, MaxMatches) }

\* Values JSON.parse may return for the reply's content.
ParsedValues ==
  UNION { { JObj(<< <<"matches", a>> >>),
            JObj(<< <<"results", a>> >>),
            a,
            JObj(<< <<"note", JStr("ok")>>, <<"data", a>> >>),
            JObj(<< <<"matches", JStr("see results")>>, <<"results", a>> >>),
            JObj(<< <<"", a>> >>),
            JObj(<< <<"results", a>>,
                    <<"matches", JArr(<<JObj(<< <<"code", JStr("561720")>> >>)>>)>> >>),
            JObj(<< <<"data", JArr(<<>>)>>, <<"items", a>> >>) } : a \in MatchArrays }
  \cup { JNull, JNum("42"), JNum("0"), JStr("text"), JBool("true"), JObj(<<>>),
         JObj(<< <<"matches", JNull>> >>) }

Contents ==
  { [c |-> "empty"], [c |-> "malformed"] } \cup { Json(v) : v \in ParsedValues }

NormalizerReplies ==
  { Response(FALSE, "stop", c) : c \in Contents }
  \cup { Response(TRUE, "stop", [c |-> "empty"]),
         Response(TRUE, "length", [c |-> "malformed"]),
         Response(FALSE, "length", [c |-> "malformed"]),
         Response(FALSE, "content_filter", [c |-> "empty"]),
         [kind |-> "throw", isError |-> TRUE, message |-> "Connection error."],
         [kind |-> "throw", isError |-> FALSE, message |-> ""] }

ExpectedRows == { [j \in 1..n |-> j] : n \in 1..MaxExpected }

InitNormalizer ==
  /\ PageFixed
  /\ fnIn \in [reply : NormalizerReplies, rws : ExpectedRows]
  /\ fnOut = <<>>
  /\ fnPc = "call"

\* matchEmissionFactorsAction resolves for the batch fnIn.rws
CallAction ==
  /\ fnPc = "call"
  /\ fnOut' = matchEmissionFactorsAction(fnIn.reply, fnIn.rws)
  /\ fnPc' = "resolved"
  /\ UNCHANGED <<fnIn, pipelineVars>>

NextNormalizer == CallAction

SpecNormalizer == InitNormalizer /\ [][NextNormalizer]_vars

(***************************************************************************)
(* The catalog search of EmissionFactorSearch.  A string is the sequence   *)
(* of its characters, so that toLowerCase, trim, split, includes and       *)
(* startsWith are computed character by character.                         *)
(***************************************************************************)
MaxCatalog == 3
MaxQueryLen == 3

ScoreCodeExact == 100
ScoreCodePrefix == 75
ScoreCodeSubstring == 50
ScoreNamePrefix == 25
ScoreNameSubstring == 15
ScoreWordPrefix == 10
ScoreAllTermsBonus == 30

\* The characters a query is typed from: a digit, a capital letter (the
\* entries hold it in both cases), a space.
QueryChars == {"5", "A", " "}

IsSpace(c) == c = " "

toLowerCaseChar(c) == IF c = "A" THEN "a" ELSE c
toLowerCase(s) == [k \in 1..Len(s) |-> toLowerCaseChar(s[k])]

\* s.trim()
trim(s) ==
  LET solid == {k \in 1..Len(s) : ~IsSpace(s[k])}
  IN  IF solid = {} THEN <<>>
      ELSE SubSeq(s, CHOOSE k \in solid : \A m \in solid : k <= m,
                     CHOOSE k \in solid : \A m \in solid : k >= m)

RECURSIVE splitFrom(_, _, _, _)
\* s.split(/\s+/) from character k on: cur is the piece being read, acc the
\* pieces already closed; a run of spaces closes one piece.
splitFrom(s, k, cur, acc) ==
  IF k > Len(s) THEN Append(acc, cur)
  ELSE IF IsSpace(s[k])
       THEN IF k > 1 /\ IsSpace(s[k - 1])
            THEN splitFrom(s, k + 1, cur, acc)
            ELSE splitFrom(s, k + 1, <<>>, Append(acc, cur))
       ELSE splitFrom(s, k + 1, Append(cur, s[k]), acc)

splitWhitespace(s) == splitFrom(s, 1, <<>>, <<>>)

includes(text, term) ==
  \E k \in 0..(Len(text) - Len(term)) : SubSeq(text, k + 1, k + Len(term)) = term

startsWith(text, term) ==
  Len(term) <= Len(text) /\ SubSeq(text, 1, Len(term)) = term

NonEmptyTerm(term) == Len(term) > 0

\* searchQuery.toLowerCase().split(/\s+/).filter(term => term.length > 0)
queryTerms(searchQuery) ==
  SelectSeq(splitWhitespace(toLowerCase(searchQuery)), NonEmptyTerm)

\* What one term adds for one entry: the code part, then the name part.
codeScore(codeText, term) ==
  IF ~includes(codeText, term) THEN 0
  ELSE IF codeText = term THEN ScoreCodeExact
  ELSE IF startsWith(codeText, term) THEN ScoreCodePrefix
  ELSE ScoreCodeSubstring

\* A name part that does not tell a prefix from a substring.
nameScoreFlat(nameText, nameWords, term) ==
  IF includes(nameText, term) THEN ScoreNameSubstring ELSE 0

nameScore(nameText, nameWords, term) ==
  IF includes(nameText, term)
  THEN IF startsWith(nameText, term) THEN ScoreNamePrefix ELSE ScoreNameSubstring
  ELSE IF \E w \in 1..Len(nameWords) : startsWith(nameWords[w], term)
       THEN ScoreWordPrefix
       ELSE 0

termMatched(codeText, nameText, nameWords, term) ==
  \/ includes(codeText, term)
  \/ includes(nameText, term)
  \/ \E w \in 1..Len(nameWords) : startsWith(nameWords[w], term)

RECURSIVE termLoop(_, _, _, _, _, _)
\* the loop over queryTerms from term t on, with the score and the number of
\* matched terms so far
termLoop(codeText, nameText, terms, t, score, matchedTerms) ==
  IF t > Len(terms) THEN [score |-> score, matchedTerms |-> matchedTerms]
  ELSE LET term == terms[t]
           nameWords == splitWhitespace(nameText)
       IN  termLoop(codeText, nameText, terms, t + 1,
                    score + codeScore(codeText, term)
                          + nameScore(nameText, nameWords, term),
                    IF termMatched(codeText, nameText, nameWords, term)
                    THEN matchedTerms + 1 ELSE matchedTerms)

\* A bonus given as soon as one term matched.
allTermsMatchedAny(matches, matchedTerms, n) == matches

\* matches && matchedTerms === queryTerms.length
allTermsMatched(matches, matchedTerms, n) == matches /\ matchedTerms = n

HasNameAlways(factor) == TRUE

\* factor.name is truthy
HasName(factor) == Len(factor.name) > 0

\* the callback of availableEmissionFactors.map
scoreFactor(factor, terms) ==
  LET codeText == toLowerCase(factor.code)
      nameText == IF HasName(factor) THEN toLowerCase(factor.name) ELSE <<>>
      counted == termLoop(codeText, nameText, terms, 1, 0, 0)
      matches == counted.matchedTerms > 0
  IN  IF ~HasName(factor)
      THEN [factor |-> factor, score |-> 0, matches |-> FALSE]
      ELSE [factor |-> factor,
            score |-> IF allTermsMatched(matches, counted.matchedTerms, Len(terms))
                      THEN counted.score + ScoreAllTermsBonus
                      ELSE counted.score,
            matches |-> matches]

ItemMatches(item) == item.matches

insertByScoreBeforeEqual(sorted, item) ==
  LET k == Cardinality({j \in 1..Len(sorted) : sorted[j].score > item.score})
  IN  SubSeq(sorted, 1, k) \o <<item>> \o SubSeq(sorted, k + 1, Len(sorted))

\* A sort by ascending score.
insertByScoreAscending(sorted, item) ==
  LET k == Cardinality({j \in 1..Len(sorted) : sorted[j].score <= item.score})
  IN  SubSeq(sorted, 1, k) \o <<item>> \o SubSeq(sorted, k + 1, Len(sorted))

\* one step of the stable sort with comparator (a, b) => b.score - a.score:
\* item goes behind every element that does not score lower
insertByScore(sorted, item) ==
  LET k == Cardinality({j \in 1..Len(sorted) : sorted[j].score >= item.score})
  IN  SubSeq(sorted, 1, k) \o <<item>> \o SubSeq(sorted, k + 1, Len(sorted))

RECURSIVE sortFrom(_, _, _)
sortFrom(items, k, sorted) ==
  IF k > Len(items) THEN sorted
  ELSE sortFrom(items, k + 1, insertByScore(sorted, items[k]))

\* items.sort((a, b) => b.score - a.score)
sortByScore(items) == sortFrom(items, 1, <<>>)

IsBlankNever(searchQuery) == FALSE

\* !searchQuery.trim()
IsBlank(searchQuery) == Len(trim(searchQuery)) = 0

\* items.map(item => item.factor)
factorsOf(items) == [k \in 1..Len(items) |-> items[k].factor]

\* the value of the useMemo
filteredEmissionFactors(availableEmissionFactors, searchQuery) ==
  IF IsBlank(searchQuery) THEN availableEmissionFactors
  ELSE LET terms == queryTerms(searchQuery)
           results == [k \in 1..Len(availableEmissionFactors) |->
                         scoreFactor(availableEmissionFactors[k], terms)]
           ranked == sortByScore(SelectSeq(results, ItemMatches))
       IN  factorsOf(ranked)

Factor(code, name) == [code |-> code, name |-> name]

\* Entries a catalog may hold: an entry whose name alone holds both "a" and
\* "5"; one whose code (with a capital) and name hold "a"; one with a name of
\* two words and a capital; one without a name, whose code holds both "a"
\* and "5"; one with that code and a name.
CatalogEntries ==
  { Factor(<<"7">>, <<"a", "5">>),
    Factor(<<"A", "7">>, <<"7", "a">>),
    Factor(<<"7", "7">>, <<"a", " ", "A">>),
    Factor(<<"a", "5">>, <<>>),
    Factor(<<"a", "5">>, <<"7">>) }

Catalogs == SeqsUpTo(CatalogEntries, MaxCatalog)

\* The component is mounted with a catalog and an empty query.
InitSearch ==
  /\ PageFixed
  /\ \E catalog \in Catalogs :
       /\ fnIn = [availableEmissionFactors |-> catalog, searchQuery |-> <<>>]
       /\ fnOut = filteredEmissionFactors(catalog, <<>>)
  /\ fnPc = "search"

\* onValueChange={setSearchQuery}: a character is typed, the memo is recomputed
TypeChar ==
  /\ fnPc \in {"search", "searched"}
  /\ Len(fnIn.searchQuery) < MaxQueryLen
  /\ \E c \in QueryChars :
       LET typed == Append(fnIn.searchQuery, c)
       IN  /\ fnIn' = [fnIn EXCEPT !.searchQuery = typed]
           /\ fnOut' = filteredEmissionFactors(fnIn.availableEmissionFactors, typed)
  /\ fnPc' = "searched"
  /\ UNCHANGED pipelineVars

\* onValueChange={setSearchQuery}: the last character is deleted
Backspace ==
  /\ fnPc \in {"search", "searched"}
  /\ Len(fnIn.searchQuery) > 0
  /\ LET typed == SubSeq(fnIn.searchQuery, 1, Len(fnIn.searchQuery) - 1)
     IN  /\ fnIn' = [fnIn EXCEPT !.searchQuery = typed]
         /\ fnOut' = filteredEmissionFactors(fnIn.availableEmissionFactors, typed)
  /\ fnPc' = "searched"
  /\ UNCHANGED pipelineVars

NextSearch == TypeChar \/ Backspace

SpecSearch == InitSearch /\ [][NextSearch]_vars

(***************************************************************************)
(* Vocabulary of the properties.                                           *)
(***************************************************************************)
\* the batch (1-based) that row k (1-based) belongs to, and its place in it
BatchOf(k) == ((k - 1) \div batchSize) + 1
PlaceInBatch(k) == ((k - 1) % batchSize) + 1
NumBatches == Len(batches)
Settled == DOMAIN outcomes
BatchSucceeded(b) == b \in Settled /\ ~IsThrown(outcomes[b]) /\ outcomes[b].isSuccess
BatchFailed(b) == b \in Settled /\ ~IsThrown(outcomes[b]) /\ ~outcomes[b].isSuccess
RunComplete == pc = "done" /\ isComplete
CarriesError(resultRow) == resultRow.EmissionFactorCode = JStr("ERROR")
\* result row k carries the label the action returned for row k
CarriesReturnedLabel(k) ==
  LET label == outcomes[BatchOf(k)].data[PlaceInBatch(k)]
  IN  /\ matchedResults[k].EmissionFactorCode = label.EmissionFactorCode
      /\ matchedResults[k].EmissionFactorName = label.EmissionFactorName
      /\ replies[BatchOf(k)] = ReplyOk(batches[BatchOf(k)]) =>
            /\ matchedResults[k].EmissionFactorCode = JStr(CodeOf(rows[k]))
            /\ matchedResults[k].EmissionFactorName = JStr(NameOf(rows[k]))

\* the class of a remote outcome the pipeline draws
ReplyClass(reply) ==
  CASE reply = ReplyThrow -> "transport"
    [] reply = ReplyRefusal -> "refusal"
    [] reply = ReplyLength -> "truncation"
    [] reply = ReplyContentFilter -> "content_filter"
    [] reply = ReplyMalformed -> "malformed_json"
    [] reply = ReplyNoArray -> "no_label_array"
    [] OTHER -> "label_array"
FailureClasses ==
  {"transport", "refusal", "truncation", "content_filter", "malformed_json",
   "no_label_array"}

(***************************************************************************)
(* C1: when a pipeline run completes, in either mode and whatever batches  *)
(* failed, the result sequence has the length of the input row sequence    *)
(* and result row k is input row k with a code and a name attached.        *)
(***************************************************************************)
C1_SameLengthAndOrder ==
  RunComplete =>
    /\ Len(matchedResults) = Len(rows)
    /\ \A k \in 1..Len(rows) :
         /\ matchedResults[k].row = rows[k]
         /\ DOMAIN matchedResults[k] =
              {"row", "EmissionFactorCode", "EmissionFactorName"}

C1_Witness ==
  /\ RunComplete
  /\ NumBatches >= 2
  /\ \E b \in Settled : BatchFailed(b)
  /\ \E b \in Settled : BatchSucceeded(b)
  /\ Len(matchedResults) = Len(rows)

(***************************************************************************)
(* C2 as stated: in a completed run, every row of a batch that succeeded   *)
(* carries the label returned for it and every row of a batch that failed  *)
(* carries "ERROR".                                                        *)
(***************************************************************************)
C2_Original ==
  RunComplete =>
    \A k \in 1..Len(rows) :
      /\ BatchSucceeded(BatchOf(k)) => CarriesReturnedLabel(k)
      /\ BatchFailed(BatchOf(k)) => CarriesError(matchedResults[k])

(***************************************************************************)
(* C2 amended: the per-batch statement holds in sequential mode; in        *)
(* parallel mode the rows carry the returned labels when no batch failed   *)
(* and every row carries "ERROR" as soon as one batch failed.              *)
(***************************************************************************)
C2_PerBatchInSequentialMode ==
  RunComplete =>
    /\ Len(matchedResults) = Len(rows)
    /\ \A k \in 1..Len(rows) :
         IF mode = "sequential" \/ \A b \in 1..NumBatches : BatchSucceeded(b)
         THEN /\ BatchSucceeded(BatchOf(k)) => CarriesReturnedLabel(k)
              /\ BatchFailed(BatchOf(k)) => CarriesError(matchedResults[k])
         ELSE CarriesError(matchedResults[k])

C2_Witness ==
  /\ RunComplete
  /\ mode = "sequential"
  /\ NumBatches = 2 /\ batchSize = 2
  /\ replies[1] = ReplyOk(batches[1]) /\ BatchFailed(2)
  /\ matchedResults[1].EmissionFactorCode = JStr("EF1")
  /\ matchedResults[2].EmissionFactorCode = JStr("EF2")
  /\ CarriesError(matchedResults[3])

(***************************************************************************)
(* C3: in parallel mode, when every batch succeeded, the labels the        *)
(* parallel action returns are the per-batch label arrays concatenated in  *)
(* batch-index order, whatever the order in which the calls completed.     *)
(***************************************************************************)
C3_ConcatenationByIndex ==
  (/\ mode = "parallel"
   /\ pc \in {"returned", "done"}
   /\ \A b \in 1..NumBatches : BatchSucceeded(b)) =>
    /\ actionResult.isSuccess
    /\ actionResult.data = Flatten([b \in 1..NumBatches |-> outcomes[b].data])
    /\ \A k \in 1..Len(rows) :
         replies[BatchOf(k)] = ReplyOk(batches[BatchOf(k)]) =>
           actionResult.data[k].EmissionFactorCode = JStr(CodeOf(rows[k]))

C3_Witness ==
  /\ mode = "parallel"
  /\ pc = "returned"
  /\ NumBatches >= 2
  /\ \A b \in 1..NumBatches : BatchSucceeded(b)
  /\ order[1] = NumBatches
  /\ actionResult.data[1].EmissionFactorCode = JStr("EF1")

(***************************************************************************)
(* C4: the parallel action returns only when every batch call has settled; *)
(* it returns a failure envelope without data exactly when some batch      *)
(* failed, and otherwise success with the combined labels.                 *)
(***************************************************************************)
C4_AggregateFailureIffAnyFailed ==
  actionResult # NoResult =>
    /\ inflight = {}
    /\ Settled = 1..NumBatches
    /\ (~actionResult.isSuccess) <=> (\E b \in 1..NumBatches : BatchFailed(b))
    /\ ~actionResult.isSuccess => ~actionResult.hasData /\ actionResult.data = <<>>
    /\ actionResult.isSuccess =>
         /\ actionResult.hasData
         /\ Len(actionResult.data) = Len(rows)

C4_Witness ==
  /\ actionResult # NoResult
  /\ NumBatches >= 2
  /\ BatchSucceeded(1)
  /\ BatchFailed(NumBatches)
  /\ ~actionResult.isSuccess

(***************************************************************************)
(* C5: in sequential mode the batches are submitted in index order, each   *)
(* at most once and one at a time; a batch that failed is followed by the  *)
(* submission of the next one; when the run ends every batch has been      *)
(* submitted exactly once and hasErrors tells whether some batch failed.   *)
(***************************************************************************)
C5_SequentialSubmission ==
  (mode = "sequential" /\ pc # "idle") =>
    /\ Cardinality(inflight) <= 1
    /\ requests = [j \in 1..Len(requests) |-> j]
    /\ Len(requests) <= NumBatches
    /\ \A b \in Settled : b < NumBatches => b + 1 \in {requests[j] : j \in 1..Len(requests)}
    /\ pc = "awaiting" => inflight = {Len(requests)} /\ Settled = 1..(Len(requests) - 1)
    /\ pc = "done" =>
         /\ requests = [j \in 1..NumBatches |-> j]
         /\ inflight = {}
         /\ hasErrors <=> (\E b \in 1..NumBatches : BatchFailed(b))
         /\ (error = MsgSomeErrors) <=> hasErrors

C5_Witness ==
  /\ mode = "sequential"
  /\ pc = "done"
  /\ NumBatches = 3
  /\ BatchFailed(1) /\ BatchSucceeded(2) /\ BatchFailed(3)
  /\ requests = <<1, 2, 3>>
  /\ hasErrors

(***************************************************************************)
(* C6: chunkArray returns ceil(n/b) slices whose concatenation is the      *)
(* input, every slice but the last of length b and the last of length      *)
(* 1..b; the inline loop of the parallel action returns the same batches.  *)
(***************************************************************************)
C6_ChunksPartitionInput ==
  fnPc \in {"chunked", "inline"} =>
    LET n == Len(fnIn.array)
        b == fnIn.chunkSize
    IN  /\ Len(fnOut) = Ceil(n, b)
        /\ Flatten(fnOut) = fnIn.array
        /\ \A j \in 1..Len(fnOut) :
             /\ j < Len(fnOut) => Len(fnOut[j]) = b
             /\ Len(fnOut[j]) >= 1 /\ Len(fnOut[j]) <= b
             /\ \A h \in 1..Len(fnOut[j]) : fnOut[j][h] = fnIn.array[(j - 1) * b + h]
        /\ fnPc = "inline" => fnOut = chunkArray(fnIn.array, b)
        /\ fnPc = "chunked" => fnOut = parallelBatches(fnIn.array, b)

C6_Witness ==
  /\ fnPc = "chunked"
  /\ fnIn.array = <<1, 2, 2, 1>>
  /\ fnIn.chunkSize = 3
  /\ fnOut = << <<1, 2, 2>>, <<1>> >>

(***************************************************************************)
(* C7: whenever matchEmissionFactorsAction succeeds for a batch, the label *)
(* array it returns has as many labels as the batch has rows, whatever the *)
(* length of the array found in the reply.                                 *)
(***************************************************************************)
LabelArrayOf(reply) == LocateMatches(reply.content.value).matches

C7_SuccessHasExpectedLength ==
  (fnPc = "resolved" /\ fnOut.isSuccess) =>
    /\ fnOut.hasData
    /\ Len(fnOut.data) = Len(fnIn.rws)

C7_Witness ==
  /\ fnPc = "resolved"
  /\ fnOut.isSuccess
  /\ Len(LabelArrayOf(fnIn.reply)) = 2
  /\ Len(fnIn.rws) = 1
  /\ Len(fnOut.data) = 1

(***************************************************************************)
(* C8: every label of a successful result has a code and a name that are   *)
(* non-empty strings.                                                      *)
(***************************************************************************)
IsNonEmptyString(x) == x.t = "str" /\ x.v # ""

C8_LabelsAreNonEmptyStrings ==
  (fnPc = "resolved" /\ fnOut.isSuccess) =>
    \A j \in 1..Len(fnOut.data) :
      /\ IsNonEmptyString(fnOut.data[j].EmissionFactorCode)
      /\ IsNonEmptyString(fnOut.data[j].EmissionFactorName)

(***************************************************************************)
(* C9: a refusal, a truncated response and a content-filtered response     *)
(* each make the batch fail with a message that differs from the message   *)
(* of every batch whose remote outcome is of another failure class         *)
(* (transport error, malformed JSON, no label array, or another of the     *)
(* three).                                                                 *)
(***************************************************************************)
SignalClasses == {"refusal", "truncation", "content_filter"}

C9_DistinctReasons ==
  \A a \in Settled :
    ReplyClass(replies[a]) \in SignalClasses =>
      /\ BatchFailed(a)
      /\ outcomes[a].message # ""
      /\ \A b \in Settled :
           (/\ ReplyClass(replies[b]) \in FailureClasses
            /\ ReplyClass(replies[b]) # ReplyClass(replies[a])) =>
             (BatchFailed(b) /\ outcomes[b].message # outcomes[a].message)

C9_Witness ==
  /\ NumBatches = 3
  /\ Settled = {1, 2, 3}
  /\ ReplyClass(replies[1]) = "content_filter"
  /\ ReplyClass(replies[2]) = "malformed_json"
  /\ ReplyClass(replies[3]) = "truncation"
  /\ outcomes[1].message = MsgContentFilter
  /\ outcomes[3].message = MsgLength

(***************************************************************************)
(* C10: for every remote outcome of a failure class, the batch action      *)
(* resolves to an envelope with isSuccess false and a message, and so does *)
(* the parallel action when a batch had such an outcome; neither throws.   *)
(***************************************************************************)
C10_FailuresBecomeEnvelopes ==
  /\ \A b \in Settled :
       /\ ~IsThrown(outcomes[b])
       /\ ReplyClass(replies[b]) \in FailureClasses =>
            /\ ~outcomes[b].isSuccess
            /\ outcomes[b].message # ""
  /\ actionResult # NoResult =>
       /\ ~IsThrown(actionResult)
       /\ (\E b \in Settled : ReplyClass(replies[b]) \in FailureClasses) =>
            /\ ~actionResult.isSuccess
            /\ actionResult.message # ""

C10_Witness ==
  /\ mode = "parallel"
  /\ pc = "returned"
  /\ NumBatches = 3
  /\ ReplyClass(replies[1]) = "transport"
  /\ ReplyClass(replies[2]) = "no_label_array"
  /\ ReplyClass(replies[3]) = "refusal"
  /\ ~actionResult.isSuccess
  /\ actionResult.message =
       "Failed to process 3 batch(es): Connection error.; "
         \o MsgNoMatches \o "; " \o MsgRefusal

(***************************************************************************)
(* C11: a run of the pipeline on the rows of a run on record, with the     *)
(* same batch size and the same reply for every batch, publishes the       *)
(* result sequence the recorded run published, in either mode and whatever *)
(* the order in which the batch calls complete in either run.              *)
(***************************************************************************)
C11_RerunYieldsSameResults ==
  (rerun.n = 2 /\ RunComplete /\ rows = rerun.rows /\ replies = rerun.mocked) =>
     matchedResults = rerun.first

C11_Witness ==
  /\ rerun.n = 2 /\ RunComplete
  /\ rows = rerun.rows /\ replies = rerun.mocked
  /\ mode = "parallel"
  /\ NumBatches >= 2
  /\ \A b \in 1..NumBatches : BatchSucceeded(b)
  /\ rerun.firstInOrder
  /\ order[1] = NumBatches
  /\ runExamples # rerun.examples
  /\ matchedResults = rerun.first
  /\ matchedResults[1] = ResultRow(rows[1], JStr(CodeOf(rows[1])), JStr(NameOf(rows[1])))

(***************************************************************************)
(* Vocabulary of the search properties.                                    *)
(***************************************************************************)
Searching == fnPc \in {"search", "searched"}
Catalog == fnIn.availableEmissionFactors
Query == fnIn.searchQuery
Returned(factor) == \E p \in 1..Len(fnOut) : fnOut[p] = factor
\* the rules of the specification, for one term and one entry
CodeRule(factor, term) == includes(toLowerCase(factor.code), term)
NameRule(factor, term) == includes(toLowerCase(factor.name), term)
WordRule(factor, term) ==
  LET words == splitWhitespace(toLowerCase(factor.name))
  IN  \E w \in 1..Len(words) : startsWith(words[w], term)
MatchedBySomeTerm(factor) ==
  LET terms == queryTerms(Query)
  IN  \E t \in 1..Len(terms) :
        CodeRule(factor, terms[t]) \/ NameRule(factor, terms[t]) \/ WordRule(factor, terms[t])
ScoreOf(factor) == scoreFactor(factor, queryTerms(Query)).score
Nameless == Factor(<<"a", "5">>, <<>>)

(***************************************************************************)
(* C12: with an empty query the search returns the catalog unchanged: the  *)
(* same entries in catalog order, none filtered out.                       *)
(***************************************************************************)
C12_EmptyQueryReturnsCatalog ==
  (Searching /\ Query = <<>>) => fnOut = Catalog

C12_Witness ==
  /\ fnPc = "searched" /\ Query = <<>>
  /\ Len(Catalog) >= 2
  /\ Catalog[1] = Nameless
  /\ Catalog[2] # Nameless
  /\ fnOut = Catalog

(***************************************************************************)
(* C13, as stated: for a non-empty query an entry is returned if and only  *)
(* if at least one query term matched it by some rule.                     *)
(***************************************************************************)
C13_Original ==
  (Searching /\ Len(Query) > 0) =>
     \A k \in 1..Len(Catalog) : Returned(Catalog[k]) <=> MatchedBySomeTerm(Catalog[k])

(***************************************************************************)
(* C13, amended: for a query with at least one character that is not       *)
(* white space, an entry is returned if and only if it has a non-empty     *)
(* name and at least one query term matched it by some rule; each such     *)
(* entry is returned once per occurrence in the catalog, and nothing else  *)
(* is returned.                                                            *)
(***************************************************************************)
C13_ReturnedIffNamedAndMatched ==
  (Searching /\ \E k \in 1..Len(Query) : ~IsSpace(Query[k])) =>
     /\ \A k \in 1..Len(Catalog) :
          Returned(Catalog[k]) <=>
            (Len(Catalog[k].name) > 0 /\ MatchedBySomeTerm(Catalog[k]))
     /\ Len(fnOut) = Cardinality({k \in 1..Len(Catalog) :
                         Len(Catalog[k].name) > 0 /\ MatchedBySomeTerm(Catalog[k])})

C13_Witness ==
  /\ Searching /\ Query = <<"5">>
  /\ Len(Catalog) = 3
  /\ Returned(Factor(<<"7">>, <<"a", "5">>))
  /\ \E k \in 1..Len(Catalog) : Catalog[k] = Nameless
  /\ ~Returned(Nameless)
  /\ \E k \in 1..Len(Catalog) : Catalog[k] = Factor(<<"7", "7">>, <<"a", " ", "A">>)
  /\ ~Returned(Factor(<<"7", "7">>, <<"a", " ", "A">>))
  /\ Len(fnOut) = 1

(***************************************************************************)
(* C14: the returned entries are in descending score order, and entries    *)
(* with equal scores keep their relative catalog order: a matching entry   *)
(* stands behind exactly the matching entries that score higher and those  *)
(* that score the same and precede it in the catalog.                      *)
(***************************************************************************)
ScoredCatalog ==
  [k \in 1..Len(Catalog) |-> scoreFactor(Catalog[k], queryTerms(Query))]
\* the matching entries that stand before entry k of the scored catalog
Ahead(items, k) ==
  {j \in 1..Len(items) : /\ items[j].matches
                          /\ \/ items[j].score > items[k].score
                             \/ items[j].score = items[k].score /\ j < k}
StableDescending(out, items) ==
  /\ Len(out) = Cardinality({k \in 1..Len(items) : items[k].matches})
  /\ \A k \in 1..Len(items) :
       items[k].matches => out[Cardinality(Ahead(items, k)) + 1] = items[k].factor

C14_DescendingScoreStable ==
  (Searching /\ ~IsBlank(Query)) => StableDescending(fnOut, ScoredCatalog)

C14_Witness ==
  /\ Searching /\ ~IsBlank(Query)
  /\ Len(fnOut) = 3
  /\ ScoreOf(fnOut[1]) > ScoreOf(fnOut[2])
  /\ ScoreOf(fnOut[2]) = ScoreOf(fnOut[3])
  /\ fnOut[2] # fnOut[3]
  /\ fnOut[1] = Catalog[3]
  /\ fnOut[2] = Catalog[1]
  /\ fnOut[3] = Catalog[2]

(***************************************************************************)
(* Vocabulary of the normalizer properties.                                *)
(***************************************************************************)
Resolved == fnPc = "resolved"
\* the reply gets as far as JSON.parse
ReachesParse(reply) ==
  /\ reply.kind = "response"
  /\ ~reply.refusal
  /\ reply.finish_reason \notin {"length", "content_filter"}
ParsedOf(reply) == reply.content.value
\* the reply gets as far as the search for the label array
ReachesLocate(reply) ==
  /\ ReachesParse(reply)
  /\ reply.content.c = "json"
  /\ Truthy(ParsedOf(reply)) /\ TypeofObject(ParsedOf(reply))
LocatedNonEmpty(reply) ==
  /\ ReachesLocate(reply)
  /\ LocateMatches(ParsedOf(reply)).found
  /\ Len(LabelArrayOf(reply)) > 0
Minimum(a, b) == IF a < b THEN a ELSE b
\* the four rules of the specification, in order
FirstNonEmptyArrayField(v) ==
  IF v.t = "obj" /\ \E j \in 1..Len(v.fields) :
                      IsArray(v.fields[j][2]) /\ Len(v.fields[j][2].items) > 0
  THEN Found(v.fields[CHOOSE j \in 1..Len(v.fields) :
                 /\ IsArray(v.fields[j][2]) /\ Len(v.fields[j][2].items) > 0
                 /\ \A h \in 1..(j - 1) :
                      ~(IsArray(v.fields[h][2]) /\ Len(v.fields[h][2].items) > 0)][2])
  ELSE NotFound
RuleLocated(v) ==
  IF IsArray(Prop(v, "matches")) THEN Found(Prop(v, "matches"))
  ELSE IF IsArray(Prop(v, "results")) THEN Found(Prop(v, "results"))
  ELSE IF IsArray(v) THEN Found(v)
  ELSE FirstNonEmptyArrayField(v)
\* the label of one element: the first key that holds a value, else the fallback
FirstHeld(el, keys, fallback) ==
  IF \E j \in 1..Len(keys) : Truthy(Prop(el, keys[j]))
  THEN Prop(el, keys[CHOOSE j \in 1..Len(keys) :
                      /\ Truthy(Prop(el, keys[j]))
                      /\ \A h \in 1..(j - 1) : ~Truthy(Prop(el, keys[h]))])
  ELSE JStr(fallback)
LabelOf(el) ==
  [EmissionFactorCode |->
     FirstHeld(el, <<"EmissionFactorCode", "code", "factorCode">>, "UNKNOWN"),
   EmissionFactorName |->
     FirstHeld(el, <<"EmissionFactorName", "name", "factorName">>,
               "Unknown emission factor")]
MissingLabel ==
  [EmissionFactorCode |-> JStr("MISSING"), EmissionFactorName |-> JStr("Match not provided")]

(***************************************************************************)
(* C15: the label array is located by the first applicable rule: the field *)
(* matches if it is an array, else the field results if it is an array,    *)
(* else the parsed value itself if it is an array, else the first field in *)
(* key order whose value is a non-empty array; the batch fails with the    *)
(* no-matches-found failure exactly when no rule applies, and the labels   *)
(* of a successful batch come from the array the rules locate.             *)
(***************************************************************************)
C15_LocatedByFirstApplicableRule ==
  (Resolved /\ ReachesLocate(fnIn.reply)) =>
     LET ruled == RuleLocated(ParsedOf(fnIn.reply))
     IN  /\ (fnOut = Failure(MsgNoMatches)) <=> ~ruled.found
         /\ (ruled.found /\ fnOut.isSuccess) =>
              \A j \in 1..Minimum(Len(ruled.matches), Len(fnIn.rws)) :
                 fnOut.data[j] = LabelOf(ruled.matches[j])

(***************************************************************************)
(* C16: a located array of m elements against a batch of k rows gives the  *)
(* m normalized elements followed by k - m MISSING labels if m < k, and    *)
(* the first k normalized elements if m > k; the batch never fails.        *)
(***************************************************************************)
C16_PaddedOrTruncated ==
  (/\ Resolved /\ LocatedNonEmpty(fnIn.reply)
   /\ Len(LabelArrayOf(fnIn.reply)) # Len(fnIn.rws)) =>
     LET m == Len(LabelArrayOf(fnIn.reply))
         k == Len(fnIn.rws)
     IN  /\ fnOut.isSuccess
         /\ Len(fnOut.data) = k
         /\ \A j \in 1..Minimum(m, k) : fnOut.data[j] = LabelOf(LabelArrayOf(fnIn.reply)[j])
         /\ \A j \in (m + 1)..k : fnOut.data[j] = MissingLabel

(***************************************************************************)
(* C17: every element of the label array gets its code from the first of   *)
(* EmissionFactorCode, code, factorCode that holds a value (else UNKNOWN)   *)
(* and its name from the first of EmissionFactorName, name, factorName      *)
(* (else "Unknown emission factor"), whatever the other elements are.       *)
(* Stated for the elements that are not null and that the batch has a row   *)
(* for.                                                                     *)
(***************************************************************************)
C17_AliasKeysPerElement ==
  (Resolved /\ LocatedNonEmpty(fnIn.reply)) =>
     \A j \in 1..Minimum(Len(LabelArrayOf(fnIn.reply)), Len(fnIn.rws)) :
        LabelArrayOf(fnIn.reply)[j] # JNull =>
          /\ fnOut.hasData
          /\ j <= Len(fnOut.data)
          /\ fnOut.data[j] = LabelOf(LabelArrayOf(fnIn.reply)[j])

(***************************************************************************)
(* C18: once a non-empty label array is located, the batch succeeds         *)
(* whatever its elements contain.                                           *)
(***************************************************************************)
C18_ElementsNeverFailTheBatch ==
  (Resolved /\ LocatedNonEmpty(fnIn.reply)) => (fnOut.isSuccess /\ fnOut.hasData)

(***************************************************************************)
(* C19: a reply whose content is not valid JSON (empty content included)    *)
(* or parses to null, a number, a string or a boolean makes the whole       *)
(* batch fail, with no labels: a parse failure in the first case, an        *)
(* invalid-format failure in the second.                                    *)
(***************************************************************************)
C19_UnparsableOrNonObjectFails ==
  (Resolved /\ ReachesParse(fnIn.reply)) =>
     /\ fnIn.reply.content.c # "json" => fnOut = Failure(MsgParseError)
     /\ (/\ fnIn.reply.content.c = "json"
         /\ ParsedOf(fnIn.reply).t \in {"null", "num", "str", "bool"})
          => fnOut = Failure(MsgInvalidFormat)

C19_Witness ==
  /\ Resolved /\ ReachesParse(fnIn.reply)
  /\ fnIn.reply.content.c = "empty"
  /\ Len(fnIn.rws) >= 2
  /\ ~fnOut.isSuccess /\ ~fnOut.hasData /\ fnOut.data = <<>>
  /\ fnOut.message = MsgParseError

(***************************************************************************)
(* C20: an empty located array makes the batch fail, for every number of    *)
(* expected rows; it is never answered with zero labels or with             *)
(* placeholders.                                                            *)
(***************************************************************************)
C20_EmptyArrayFails ==
  (/\ Resolved /\ ReachesLocate(fnIn.reply)
   /\ LocateMatches(ParsedOf(fnIn.reply)).found
   /\ Len(LabelArrayOf(fnIn.reply)) = 0)
    => fnOut = Failure(MsgEmptyMatches)

C20_Witness ==
  /\ Resolved
  /\ fnIn.reply = Response(FALSE, "stop", Json(JObj(<< <<"matches", JArr(<<>>)>> >>)))
  /\ Len(fnIn.rws) >= 2
  /\ ~fnOut.isSuccess /\ ~fnOut.hasData
  /\ fnOut.message = MsgEmptyMatches

(***************************************************************************)
(* Vocabulary of the reconciliation properties.                            *)
(***************************************************************************)
\* what reconciling the rows rws against the envelope result must give
Reconciled(rws, result) ==
  IF result.isSuccess
  THEN [j \in 1..Len(rws) |->
          ResultRow(rws[j], result.data[j].EmissionFactorCode,
                    result.data[j].EmissionFactorName)]
  ELSE [j \in 1..Len(rws) |->
          ResultRow(rws[j], JStr("ERROR"), JStr("Failed: " \o result.message))]
\* the rows of batch b in a sequence of result rows of the whole input
SegmentOf(results, b) ==
  SubSeq(results, (b - 1) * batchSize + 1, (b - 1) * batchSize + Len(batches[b]))
\* the batches the sequential loop has reconciled so far
ReconciledBatches == IF pc = "idle" THEN {} ELSE Settled

(***************************************************************************)
(* C21, as stated: in either mode the reconciled output of every batch     *)
(* has the length of the batch; the rows of a succeeded batch carry the    *)
(* labels of its outcome, the rows of a failed batch the ERROR label with   *)
(* "Failed: " and the failure message of that batch.                       *)
(***************************************************************************)
C21_Original ==
  RunComplete =>
     \A b \in 1..NumBatches :
        /\ Len(matchedResults) >= (b - 1) * batchSize + Len(batches[b])
        /\ SegmentOf(matchedResults, b) = Reconciled(batches[b], outcomes[b])

(***************************************************************************)
(* C21, amended: in sequential mode, as soon as a batch is settled its     *)
(* rows stand in the accumulated results, as many as the batch has, merged  *)
(* with the labels of its outcome on success and with the ERROR label and   *)
(* "Failed: <message of that batch>" on failure.  In parallel mode the      *)
(* rows are reconciled once, all of them, against the envelope of the       *)
(* parallel action: its labels on success, and on failure the ERROR label   *)
(* for every row, with "Failed: " and the aggregated message "Failed to     *)
(* process <count> batch(es): <messages>", the messages being those of the  *)
(* failed batches in batch order, joined by "; ".                           *)
(***************************************************************************)
\* the batches that returned a failure envelope, in batch order
FailedInOrder ==
  SelectSeq([b \in 1..NumBatches |-> b], LAMBDA b : ~outcomes[b].isSuccess)
\* the aggregated message as the amended statement words it
AggregatedMessage ==
  "Failed to process " \o ToString(Len(FailedInOrder)) \o " batch(es): "
    \o Join([f \in 1..Len(FailedInOrder) |-> outcomes[FailedInOrder[f]].message], "; ")

C21_ReconciledPerOutcome ==
  /\ mode = "sequential" =>
       /\ Len(allResults) = Min(Cardinality(ReconciledBatches) * batchSize, Len(rows))
       /\ \A b \in ReconciledBatches :
            SegmentOf(allResults, b) = Reconciled(batches[b], outcomes[b])
  /\ (mode = "parallel" /\ pc = "done") =>
       /\ matchedResults = Reconciled(rows, actionResult)
       /\ actionResult.isSuccess <=> \A b \in 1..NumBatches : BatchSucceeded(b)
       /\ ~actionResult.isSuccess =>
            \A j \in 1..Len(rows) :
               matchedResults[j] =
                 ResultRow(rows[j], JStr("ERROR"), JStr("Failed: " \o AggregatedMessage))

C21_Witness ==
  /\ mode = "sequential" /\ pc = "awaiting"
  /\ batchSize = 2 /\ Len(rows) = 3
  /\ ReconciledBatches = {1}
  /\ BatchFailed(1)
  /\ Len(allResults) = 2
  /\ allResults[2] = ResultRow(2, JStr("ERROR"), JStr("Failed: " \o MsgLength))

(***************************************************************************)
(* C22: within one run every batch causes exactly one request to the       *)
(* remote classifier; a batch that failed is not submitted again, in       *)
(* either mode.                                                            *)
(***************************************************************************)
RequestsFor(b) == Cardinality({r \in 1..Len(requests) : requests[r] = b})

C22_OneRequestPerBatch ==
  /\ \A b \in 1..MaxRows : RequestsFor(b) <= 1
  /\ \A b \in Settled : RequestsFor(b) = 1
  /\ RunComplete => \A b \in 1..NumBatches : RequestsFor(b) = 1

C22_Witness ==
  /\ RunComplete
  /\ NumBatches >= 2
  /\ BatchFailed(1)
  /\ BatchSucceeded(2)
  /\ RequestsFor(1) = 1
  /\ Len(requests) = NumBatches

(***************************************************************************)
(* C23: in parallel mode the request of every batch is issued before the   *)
(* response of any batch is processed: while some batch has not been       *)
(* dispatched, no reply has been normalized and nothing has been           *)
(* reconciled.                                                             *)
(***************************************************************************)
Dispatched == {requests[r] : r \in 1..Len(requests)}

C23_AllIssuedBeforeAnyProcessed ==
  (mode = "parallel" /\ pc # "idle" /\ pc # "calling") =>
     /\ Dispatched = 1..Len(batches)
     /\ Len(batches) = Ceil(Len(rows), batchSize)
     /\ Settled \subseteq Dispatched
     /\ (Settled # {} \/ actionResult # NoResult \/ isComplete) =>
          Dispatched = 1..Ceil(Len(rows), batchSize)

C23_Witness ==
  /\ mode = "parallel" /\ pc = "pending"
  /\ NumBatches = 3
  /\ Dispatched = {1, 2, 3}
  /\ Settled = {2}
  /\ inflight = {1, 3}

(***************************************************************************)
(* C24: in sequential mode, while batch i+1 is in flight the progress      *)
(* counters account for the batches 1..i as completed: the rows processed  *)
(* are the rows of the completed batches, the current batch is the last    *)
(* completed one or the one in flight, and the totals are those of the     *)
(* run.                                                                    *)
(***************************************************************************)
C24_CountersShowCompletedBatches ==
  (mode = "sequential" /\ pc = "awaiting") =>
     /\ processingStats.totalBatches = NumBatches
     /\ processingStats.totalRows = Len(rows)
     /\ processingStats.currentBatch \in {i, i + 1}
     /\ processingStats.processedRows = Min(i * batchSize, Len(rows))

(***************************************************************************)
(* Vocabulary of the scoring properties.                                   *)
(***************************************************************************)
Terms == queryTerms(Query)
\* the score of an entry before the bonus
BaseScoreOf(factor) ==
  IF HasName(factor)
  THEN termLoop(toLowerCase(factor.code), toLowerCase(factor.name), Terms, 1, 0, 0).score
  ELSE 0
RECURSIVE SumSeq(_)
SumSeq(values) == IF values = <<>> THEN 0 ELSE Head(values) + SumSeq(Tail(values))
\* the value of the highest code rule a term satisfies for an entry
CodeValue(factor, term) ==
  IF toLowerCase(factor.code) = term THEN 100
  ELSE IF startsWith(toLowerCase(factor.code), term) THEN 75
  ELSE IF CodeRule(factor, term) THEN 50
  ELSE 0
\* the value of the highest name rule a term satisfies for an entry
NameValue(factor, term) ==
  IF startsWith(toLowerCase(factor.name), term) THEN 25
  ELSE IF NameRule(factor, term) THEN 15
  ELSE IF WordRule(factor, term) THEN 10
  ELSE 0
\* the value of the single highest rule a term satisfies for an entry
SingleRuleValue(factor, term) ==
  IF CodeValue(factor, term) > 0 THEN CodeValue(factor, term)
  ELSE NameValue(factor, term)
\* a term matches somewhere in an entry: in its code or in its name
MatchesTerm(factor, term) ==
  CodeRule(factor, term) \/ NameRule(factor, term) \/ WordRule(factor, term)
MatchedTermsOf(factor) == {t \in 1..Len(Terms) : MatchesTerm(factor, Terms[t])}
RanksAbove(x, y) ==
  /\ Returned(x)
  /\ \A p, q \in 1..Len(fnOut) : (fnOut[p] = x /\ fnOut[q] = y) => p < q
EntryAY == Factor(<<"A", "7">>, <<"7", "a">>)
EntryX == Factor(<<"7">>, <<"a", "5">>)
EntryW == Factor(<<"7", "7">>, <<"a", " ", "A">>)

(***************************************************************************)
(* C25, as stated: each term adds to an entry's score the value of the     *)
(* single highest rule it satisfies (100, 75, 50, 25, 15, 10); the base    *)
(* score is the sum of these values over the terms.                        *)
(***************************************************************************)
C25_Original ==
  (Searching /\ ~IsBlank(Query)) =>
     \A k \in 1..Len(Catalog) :
        BaseScoreOf(Catalog[k]) =
          SumSeq([t \in 1..Len(Terms) |-> SingleRuleValue(Catalog[k], Terms[t])])

(***************************************************************************)
(* C25, amended: for an entry with a name each term adds the value of the  *)
(* highest code rule it satisfies (exact 100, prefix 75, substring 50,     *)
(* else 0) plus the value of the highest name rule it satisfies (name      *)
(* prefix 25, name substring 15, word prefix 10, else 0); the base score   *)
(* is the sum over the terms.  An entry without a name scores 0.           *)
(***************************************************************************)
C25_CodeAndNameValuesAdd ==
  (Searching /\ ~IsBlank(Query)) =>
     \A k \in 1..Len(Catalog) :
        BaseScoreOf(Catalog[k]) =
          IF Len(Catalog[k].name) = 0 THEN 0
          ELSE SumSeq([t \in 1..Len(Terms) |->
                         CodeValue(Catalog[k], Terms[t]) + NameValue(Catalog[k], Terms[t])])

C25_Witness ==
  /\ fnPc = "searched" /\ Query = <<"A">>
  /\ Returned(EntryAY)
  /\ BaseScoreOf(EntryAY) = 90
  /\ Returned(EntryX)
  /\ BaseScoreOf(EntryX) = 25

(***************************************************************************)
(* C26, as stated: the bonus of 30 is added to an entry's score exactly    *)
(* when every query term matched somewhere in the entry; it is not added   *)
(* when some term did not.                                                 *)
(***************************************************************************)
C26_Original ==
  (Searching /\ ~IsBlank(Query)) =>
     \A k \in 1..Len(Catalog) :
        ScoreOf(Catalog[k]) =
          BaseScoreOf(Catalog[k])
            + (IF MatchedTermsOf(Catalog[k]) = 1..Len(Terms) THEN 30 ELSE 0)

(***************************************************************************)
(* C26, amended: the bonus of 30 is added to the score of an entry exactly *)
(* when the entry has a name and every query term matched somewhere in it  *)
(* (code or name); it is not added when some term did not match, and an    *)
(* entry without a name gets no bonus (its score is 0) even when every     *)
(* term matches its code.                                                  *)
(***************************************************************************)
C26_BonusIffNamedAndAllTermsMatched ==
  (Searching /\ ~IsBlank(Query)) =>
     \A k \in 1..Len(Catalog) :
        /\ ScoreOf(Catalog[k]) =
             BaseScoreOf(Catalog[k])
               + (IF /\ Len(Catalog[k].name) > 0
                     /\ MatchedTermsOf(Catalog[k]) = 1..Len(Terms)
                  THEN 30 ELSE 0)
        /\ Len(Catalog[k].name) = 0 => ScoreOf(Catalog[k]) = 0

C26_Witness ==
  /\ fnPc = "searched" /\ Len(Terms) = 2 /\ Terms[1] # Terms[2]
  /\ Catalog = <<Nameless, EntryAY, EntryX>>
  /\ MatchedTermsOf(EntryX) = {1, 2}
  /\ ScoreOf(EntryX) = BaseScoreOf(EntryX) + 30
  /\ Cardinality(MatchedTermsOf(EntryAY)) = 1
  /\ ScoreOf(EntryAY) = BaseScoreOf(EntryAY)
  /\ MatchedTermsOf(Nameless) = {1, 2}
  /\ ScoreOf(Nameless) = 0
  /\ fnOut = <<EntryAY, EntryX>>

(***************************************************************************)
(* C27, as stated: for a query of two terms an entry matched by both terms *)
(* scores strictly higher than, and ranks above, any other entry matched   *)
(* by only one of the terms through a match that is not an exact code      *)
(* match.                                                                  *)
(***************************************************************************)
OneTermPartial(y) ==
  /\ Cardinality(MatchedTermsOf(y)) = 1
  /\ \A t \in MatchedTermsOf(y) : toLowerCase(y.code) # Terms[t]

C27_Original ==
  (Searching /\ Len(Terms) = 2) =>
     \A j, k \in 1..Len(Catalog) :
        (MatchedTermsOf(Catalog[j]) = {1, 2} /\ OneTermPartial(Catalog[k])) =>
           /\ ScoreOf(Catalog[j]) > ScoreOf(Catalog[k])
           /\ RanksAbove(Catalog[j], Catalog[k])

(***************************************************************************)
(* C27, amended: for a query of two terms an entry that has a name and is  *)
(* matched by both terms scores strictly higher than, and ranks above,     *)
(* another entry matched by only one of the terms if that one match is in  *)
(* the other entry's name only, or if both terms match the first entry's   *)
(* code and the other entry's match is not an exact code match.  An entry  *)
(* without a name scores 0 and is not returned, also when both terms match *)
(* its code.                                                               *)
(***************************************************************************)
C27_NamedTwoTermsBeatOneNameMatch ==
  (Searching /\ Len(Terms) = 2) =>
     /\ \A j, k \in 1..Len(Catalog) :
          (/\ Len(Catalog[j].name) > 0
           /\ MatchedTermsOf(Catalog[j]) = {1, 2}
           /\ OneTermPartial(Catalog[k])
           /\ \/ \A t \in MatchedTermsOf(Catalog[k]) : ~CodeRule(Catalog[k], Terms[t])
              \/ \A t \in {1, 2} : CodeRule(Catalog[j], Terms[t])) =>
             /\ ScoreOf(Catalog[j]) > ScoreOf(Catalog[k])
             /\ RanksAbove(Catalog[j], Catalog[k])
     /\ \A j \in 1..Len(Catalog) :
          Len(Catalog[j].name) = 0 =>
             (ScoreOf(Catalog[j]) = 0 /\ ~Returned(Catalog[j]))

C27_Witness ==
  /\ fnPc = "searched" /\ Len(Terms) = 2 /\ Terms[1] # Terms[2]
  /\ Catalog = <<EntryW, Nameless, EntryX>>
  /\ MatchedTermsOf(EntryX) = {1, 2}
  /\ OneTermPartial(EntryW)
  /\ \A t \in MatchedTermsOf(EntryW) : ~CodeRule(EntryW, Terms[t])
  /\ ScoreOf(EntryX) > ScoreOf(EntryW)
  /\ \A t \in {1, 2} : CodeRule(Nameless, Terms[t])
  /\ ScoreOf(Nameless) = 0
  /\ fnOut = <<EntryX, EntryW>>

(***************************************************************************)
(* C28: chunkArray returns zero batches when the input is empty (n = 0),   *)
(* and exactly one batch, holding the whole input, when the input is not   *)
(* empty and the batch size b is at least n.                               *)
(***************************************************************************)
C28_DegenerateChunking ==
  fnPc = "chunked" =>
    LET n == Len(fnIn.array)
        b == fnIn.chunkSize
    IN  /\ n = 0 => Len(fnOut) = 0
        /\ (n >= 1 /\ b >= n) => (Len(fnOut) = 1 /\ fnOut[1] = fnIn.array)

C28_Witness ==
  /\ fnPc = "chunked"
  /\ fnIn.array = <<2, 1>>
  /\ fnIn.chunkSize = 3
  /\ fnOut = << <<2, 1>> >>

(***************************************************************************)
(* C29: whenever isComplete is true on the matcher page, matchedResults    *)
(* holds exactly one row per row of the currently loaded file, in the      *)
(* file's order: the results offered for preview or download never belong  *)
(* to a file loaded earlier, whatever the interleaving of file selection,  *)
(* its parse, the examples step and processing.                            *)
(***************************************************************************)
ResultsOf(data) ==
  /\ Len(matchedResults) = Len(data.rows)
  /\ \A j \in 1..Len(data.rows) : matchedResults[j].row = data.rows[j]

C29_ResultsOfLoadedFile == isComplete => ResultsOf(fileData)

(***************************************************************************)
(* C30: provided every remote call eventually settles, every run of        *)
(* processData that set isProcessing to true eventually sets it back to    *)
(* false, whether its batches succeed, fail, or the action call throws;    *)
(* and a run that ends without a thrown error ends with isComplete true    *)
(* and matchedResults holding one row per row it processed.                *)
(***************************************************************************)
RunEnds == isProcessing /\ ~isProcessing'
Caught == SeqReject \/ ParReject
Published ==
  /\ isComplete'
  /\ Len(matchedResults') = Len(rows)
  /\ \A j \in 1..Len(rows) : matchedResults'[j].row = rows[j]

C30_ProcessingAlwaysEnds ==
  /\ isProcessing ~> ~isProcessing
  /\ [][RunEnds => (Caught \/ Published)]_vars

C30_Witness ==
  /\ mode = "sequential"
  /\ pc = "done"
  /\ Len(batches) = 2
  /\ order = <<1>>
  /\ error = MsgRejected
  /\ ~isProcessing
  /\ ~isComplete
  /\ matchedResults = <<>>

====
